---------------------------- MODULE Spec2Model ----------------------------
(***************************************************************************)
(* A model of the receipt verification engine of receipt_verifier.py:      *)
(* RequestParams / RequestBuilder, RetryHandler, ReceiptCache,             *)
(* Receipt.from_api_response and ReceiptVerifier.verify_receipt.           *)
(*                                                                         *)
(* Python values are represented as follows.                               *)
(*   - a dict is a sequence of <<key, value>> pairs in insertion order     *)
(*     (Python dicts iterate in insertion order);                          *)
(*   - None is the string None ("<None>"); where a Receipt may be absent   *)
(*     a flag says so and the value is a placeholder;                      *)
(*   - an amount x / 100 is the pair <<x \div 100, x % 100>> (rubles and   *)
(*     hundredths), a delay is a fraction <<numerator, denominator>>;      *)
(*   - hashlib.md5(s).hexdigest() is "md5:" \o s, a collision-free digest  *)
(*     that keeps the hashed string visible.                               *)
(***************************************************************************)
EXTENDS Integers, Sequences, FiniteSets, TLC

VARIABLES
    rcache,        \* ReceiptVerifier.cache: [cache, hits, misses]
    max_retries,   \* ReceiptVerifier.retry_handler.max_retries
    pc,            \* "idle": no call in progress; "loop": inside the retry loop
    lastOp,        \* the operation that ran last: "none", "verify", "clear", "get", "put"
    request_data,  \* verify_receipt's request_data argument, as the caller holds it
    promo_id,      \* verify_receipt's promo_id argument
    userdata,      \* verify_receipt's userdata argument
    cache_key,     \* local cache_key
    request_dict,  \* local request_dict
    attempt,       \* the loop variable
    files,         \* state of the attachment handle: "none", "open", "closed"
    closes,        \* close() invocations on the handle during the call
    netCalls,      \* requests.post invocations that reached the transport
    sent,          \* the data argument of each of them, in order
    sleeps,        \* the time.sleep delays, in order
    traced,        \* whether the transport keeps a record of what it gives
    recv,          \* what each requests.post of the call gave, in order (when traced)
    ret,           \* how the call ended
    puts,          \* keys handed to ReceiptCache.put by the cache driver since the last clear
    lastGet,       \* key of the last successful driver get with no put since
    probe,         \* the last direct call of a pure method, with its result
    lookups,       \* ReceiptCache.get invocations since the last clear
    wasCached,     \* keys the cache held when it was last cleared (when traced)
    threads,       \* the locals of each thread running verify_receipt concurrently
    bot            \* ReceiptBot: limiter file, conversations, files, buttons, handlers running

vars == <<rcache, max_retries, pc, lastOp, request_data, promo_id, userdata,
          cache_key, request_dict, attempt, files, closes, netCalls, sent,
          sleeps, traced, recv, ret, puts, lastGet, probe, lookups, wasCached,
          threads, bot>>

None == "<None>"

-----------------------------------------------------------------------------
(* Bounds of the exploration.                                              *)

\* cache_size given to ReceiptVerifier / max_size of the ReceiptCache
max_size == 2
\* largest max_retries a ReceiptVerifier is constructed with
MaxRetries == 3
\* cache lookups (hits + misses) explored between two clears
MaxLookups == 3
\* direct put calls explored between two clears
MaxPuts == 3

-----------------------------------------------------------------------------
(* Python dict operations on sequences of <<key, value>> pairs.            *)

DictKeys(d) == {d[i][1] : i \in 1..Len(d)}

DictHas(d, k) == \E i \in 1..Len(d) : d[i][1] = k

DictIndex(d, k) == CHOOSE i \in 1..Len(d) : d[i][1] = k

\* d.get(k, default)
DictGet(d, k, default) == IF DictHas(d, k) THEN d[DictIndex(d, k)][2] ELSE default

\* d[k] = v: an existing key keeps its position, a new key goes last
DictSet(d, k, v) ==
    IF DictHas(d, k)
    THEN [d EXCEPT ![DictIndex(d, k)] = <<k, v>>]
    ELSE Append(d, <<k, v>>)

\* mutant of DictDelFirst: the newest entry is deleted
DictDelLast(d) == SubSeq(d, 1, Len(d) - 1)

\* del d[next(iter(d))]
DictDelFirst(d) == Tail(d)

\* del d[k]
DictDel(d, k) == SelectSeq(d, LAMBDA e : e[1] # k)

-----------------------------------------------------------------------------
(* Receipt and Receipt.from_api_response.                                  *)

\* mutant of Div100: integer division, x // 100
Div100_Floor(x) == <<x \div 100, 0>>

\* x / 100
Div100(x) == <<x \div 100, x % 100>>

Zero == <<0, 0>>

\* the dataclass defaults
ReceiptDefaults ==
    [code |-> 0, is_valid |-> FALSE, date_time |-> None, error_message |-> None,
     organization |-> "", address |-> "", inn |-> "", date |-> "", time |-> "",
     place |-> "", cashier |-> "", receipt_number |-> "", shift_number |-> "",
     fiscal_drive_number |-> "", fiscal_document_number |-> "", fiscal_sign |-> "",
     operation_type |-> 0, items |-> <<>>,
     total_sum |-> Zero, cash_sum |-> Zero, card_sum |-> Zero,
     vat_20 |-> Zero, vat_10 |-> Zero, vat_0 |-> Zero, vat_none |-> Zero,
     raw_response |-> <<>>, html_content |-> ""]

\* Receipt(code=..., is_valid=False, error_message=..., date_time=datetime.now())
ErrorReceipt(code, message) ==
    [ReceiptDefaults EXCEPT !.code = code, !.is_valid = FALSE,
                            !.error_message = message, !.date_time = "now"]

error_messages ==
    << <<0, "Invalid receipt">>,
       <<2, "Receipt data not yet available">>,
       <<3, "Request limit exceeded">>,
       <<4, "Wait before retrying">>,
       <<5, "Data not received">> >>

\* datetime.strptime(date_str, '%Y-%m-%dT%H:%M:%S'): the timestamps of the model
\* that match the format, with their date and time parts
ParsableDates ==
    << <<"2020-09-24T18:37:00", [date |-> "2020-09-24", time |-> "18:37:00"]>> >>

\* lines 109-113: whether date_time is a datetime (not None) after them
DateParses(date_str) == date_str # "" /\ DictHas(ParsableDates, date_str)

\* the parsed datetime, for a string that parses
ParseDate(date_str) == DictGet(ParsableDates, date_str, None)

ReceiptItemOf(item_data) ==
    [name |-> DictGet(item_data, "name", ""),
     price |-> Div100(DictGet(item_data, "price", 0)),
     quantity |-> DictGet(item_data, "quantity", 0),
     sum |-> Div100(DictGet(item_data, "sum", 0))]

ResponseCode(response) == DictGet(response, "code", -1)

\* The outcome of a call: a returned Receipt, or a raised exception (value is
\* then a placeholder).
Returned(v) == [kind |-> "return", value |-> v, exc |-> None]
Raised(e) == [kind |-> "raise", value |-> ReceiptDefaults, exc |-> e]

\* Receipt(...) of lines 125-151, date_time being a parsed timestamp
ParsedReceipt(response, data, date_time) ==
    [ReceiptDefaults EXCEPT
        !.code = ResponseCode(response),
        !.is_valid = TRUE,
        !.organization = DictGet(data, "user", ""),
        !.address = DictGet(data, "retailPlaceAddress", ""),
        !.inn = DictGet(data, "userInn", ""),
        !.time = date_time.time,
        !.date = date_time.date,
        !.place = DictGet(data, "retailPlace", ""),
        !.cashier = DictGet(data, "operator", ""),
        !.receipt_number = DictGet(data, "requestNumber", ""),
        !.shift_number = DictGet(data, "shiftNumber", ""),
        !.fiscal_drive_number = DictGet(data, "fiscalDriveNumber", ""),
        !.fiscal_document_number = DictGet(data, "fiscalDocumentNumber", ""),
        !.fiscal_sign = DictGet(data, "fiscalSign", ""),
        !.operation_type = DictGet(data, "operationType", 0),
        !.items = [i \in 1..Len(DictGet(data, "items", <<>>)) |->
                      ReceiptItemOf(DictGet(data, "items", <<>>)[i])],
        !.total_sum = Div100(DictGet(data, "totalSum", 0)),
        !.cash_sum = Div100(DictGet(data, "cashTotalSum", 0)),
        !.card_sum = Div100(DictGet(data, "ecashTotalSum", 0)),
        !.vat_20 = Div100(DictGet(data, "nds18", 0)),
        !.vat_10 = Div100(DictGet(data, "nds", 0)),
        !.vat_0 = Div100(DictGet(data, "nds0", 0)),
        !.vat_none = Div100(DictGet(data, "ndsNo", 0)),
        !.html_content = DictGet(DictGet(response, "data", <<>>), "html", ""),
        !.raw_response = response]

\* Receipt.from_api_response(response).  With date_time None, line 131
\* (date_time.strftime) raises AttributeError.
from_api_response(response) ==
    LET code == ResponseCode(response)
        data == DictGet(DictGet(response, "data", <<>>), "json", <<>>)
        date_str == DictGet(data, "dateTime", "")
    IN  IF DictHas(error_messages, code)
        THEN Returned(ErrorReceipt(code, DictGet(error_messages, code, None)))
        ELSE IF code # 1
        THEN Returned(ErrorReceipt(code, DictGet(response, "error", "Unknown error")))
        ELSE IF ~DateParses(date_str)
        THEN Raised("AttributeError")
        ELSE Returned(ParsedReceipt(response, data, ParseDate(date_str)))

-----------------------------------------------------------------------------
(* Receipt.to_csv and the file system it meets: what is at receipts_dir    *)
(* ("absent", "dir", a regular "file", "noparent" when the parent is       *)
(* missing, "denied" when the parent refuses the creation), whether        *)
(* open(filename, 'w') and the writes succeed, and the paths written.      *)

DirStates == {"absent", "dir", "file", "noparent", "denied"}

Fs(at, writable) == [at |-> at, writable |-> writable, written |-> {}]

\* line 180: Path(receipts_dir).mkdir(exist_ok=True), parents not created
mkdir(fs) ==
    CASE fs.at = "absent" -> [exc |-> None, fs |-> [fs EXCEPT !.at = "dir"]]
      [] fs.at = "dir" -> [exc |-> None, fs |-> fs]
      [] fs.at = "file" -> [exc |-> "FileExistsError", fs |-> fs]
      [] fs.at = "noparent" -> [exc |-> "FileNotFoundError", fs |-> fs]
      [] fs.at = "denied" -> [exc |-> "PermissionError", fs |-> fs]

\* str.replace(':', '-')
RECURSIVE replace_colons(_)
replace_colons(str) ==
    IF Len(str) = 0 THEN ""
    ELSE (IF SubSeq(str, 1, 1) = ":" THEN "-" ELSE SubSeq(str, 1, 1))
         \o replace_colons(SubSeq(str, 2, Len(str)))

\* os.path.join of a directory and a relative name
path_join(dir, name) == dir \o "/" \o name

\* line 184: the generated file name
generated_filename(self) ==
    self.date \o "_" \o replace_colons(self.time) \o "_" \o self.fiscal_drive_number
    \o "_" \o self.fiscal_document_number \o "_" \o self.fiscal_sign \o ".csv"

\* lines 176-232: the outcome of the call and the file system after it
to_csv(self, filename, receipts_dir, fs) ==
    IF ~self.is_valid
    THEN [out |-> [kind |-> "return", value |-> None, exc |-> None], fs |-> fs]
    ELSE IF mkdir(fs).exc # None
    THEN [out |-> [kind |-> "raise", value |-> None, exc |-> mkdir(fs).exc], fs |-> fs]
    ELSE LET name == IF filename = None
                     THEN path_join(receipts_dir, generated_filename(self))
                     ELSE filename
         IN  IF mkdir(fs).fs.writable
             THEN [out |-> [kind |-> "return", value |-> name, exc |-> None],
                   fs |-> [mkdir(fs).fs EXCEPT !.written = @ \cup {name}]]
             ELSE [out |-> [kind |-> "return", value |-> None, exc |-> None],
                   fs |-> mkdir(fs).fs]

-----------------------------------------------------------------------------
(* RequestParams and RequestBuilder.                                       *)

RequestParams(fn, fd, fp, t, n, s, qr) ==
    [type |-> "RequestParams", fn |-> fn, fd |-> fd, fp |-> fp, t |-> t,
     n |-> n, s |-> s, qr |-> qr, d |-> <<>>]

\* a plain dict passed as request_data
PyDict(d) ==
    [type |-> "dict", fn |-> "", fd |-> "", fp |-> "", t |-> "",
     n |-> "", s |-> "", qr |-> "", d |-> d]

md5(s) == "md5:" \o s

to_dict(p) ==
    << <<"fn", p.fn>>, <<"fd", p.fd>>, <<"fp", p.fp>>, <<"t", p.t>>,
       <<"n", p.n>>, <<"s", p.s>>, <<"qr", p.qr>> >>

\* mutant of fingerprint: the total s is part of the key
fingerprint_WithSum(p) ==
    md5(p.fn \o "_" \o p.fd \o "_" \o p.fp \o "_" \o p.t \o "_" \o p.s)

fingerprint(p) == md5(p.fn \o "_" \o p.fd \o "_" \o p.fp \o "_" \o p.t)

from_manual_params(data) == PyDict(data)

from_qr_string(qr_string) == PyDict(<< <<"qrraw", qr_string>> >>)

from_qr_url(url) == PyDict(<< <<"qrurl", url>> >>)

\* the data half of from_qr_file's result; the files half is an open handle
from_qr_file_data == PyDict(<<>>)

-----------------------------------------------------------------------------
(* RetryHandler.  base_delay is never passed by ReceiptVerifier, so it     *)
(* keeps its default.                                                      *)

base_delay == 1

RECURSIVE Pow(_, _)
Pow(b, e) == IF e = 0 THEN 1 ELSE b * Pow(b, e - 1)

\* mutant of should_retry: code 5 (data not received) is retried as well
should_retry_AlsoFive(code) == code \in {2, 3, 4, 5}

should_retry(code) == code \in {2, 3, 4}

\* mutant of RetryHandler_get_delay: the docstring's formula, base * 2^attempt,
\* for every retryable code
RetryHandler_get_delay_AllExponential(base, code, a) ==
    IF code \in {2, 3, 4} THEN <<base[1] * Pow(2, a), base[2]>> ELSE base

\* RetryHandler.get_delay of a handler whose base_delay is the fraction base;
\* delays are fractions <<numerator, denominator>> of a second, 1.5 is 3/2
RetryHandler_get_delay(base, code, a) ==
    IF code = 3 THEN <<base[1] * Pow(2, a), base[2]>>
    ELSE IF code = 4 THEN <<base[1] * 2, base[2]>>
    ELSE IF code = 2 THEN <<base[1] * Pow(3, a), base[2] * Pow(2, a)>>
    ELSE base

\* self.retry_handler.get_delay(code, attempt) in verify_receipt
get_delay(code, a) == RetryHandler_get_delay(<<base_delay, 1>>, code, a)

\* mutant of network_delay: the same delay before every retry
network_delay_Fixed(a) == <<base_delay, 1>>

\* line 474: the transport-failure schedule
network_delay(a) == <<base_delay * Pow(2, a), 1>>

-----------------------------------------------------------------------------
(* ReceiptCache: C is the object [cache, hits, misses]; each operation     *)
(* gives the object after the call and the value returned.                 *)

NewCache == [cache |-> <<>>, hits |-> 0, misses |-> 0]

\* mutant of ReceiptCache_get: the stored value is never returned
ReceiptCache_get_AlwaysMiss(C, key) ==
    [obj |-> [C EXCEPT !.misses = C.misses + 1], found |-> FALSE,
     value |-> ReceiptDefaults]

\* mutant of ReceiptCache_get: a hit moves the entry to the newest position
ReceiptCache_get_Touching(C, key) ==
    IF DictHas(C.cache, key)
    THEN [obj |-> [C EXCEPT !.hits = C.hits + 1,
                            !.cache = Append(DictDel(C.cache, key),
                                             <<key, DictGet(C.cache, key, ReceiptDefaults)>>)],
          found |-> TRUE, value |-> DictGet(C.cache, key, ReceiptDefaults)]
    ELSE [obj |-> [C EXCEPT !.misses = C.misses + 1], found |-> FALSE,
          value |-> ReceiptDefaults]

ReceiptCache_get(C, key) ==
    IF DictHas(C.cache, key)
    THEN [obj |-> [C EXCEPT !.hits = C.hits + 1], found |-> TRUE,
          value |-> DictGet(C.cache, key, ReceiptDefaults)]
    ELSE [obj |-> [C EXCEPT !.misses = C.misses + 1], found |-> FALSE,
          value |-> ReceiptDefaults]

\* mutant of ReceiptCache_put: an invalid receipt is refused
ReceiptCache_put_RefusesInvalid(C, key, receipt) ==
    IF ~receipt.is_valid THEN C
    ELSE [C EXCEPT !.cache =
            DictSet(IF Len(C.cache) >= max_size THEN DictDelFirst(C.cache) ELSE C.cache,
                    key, receipt)]

\* mutant of ReceiptCache_put: nothing is evicted
ReceiptCache_put_NoEviction(C, key, receipt) ==
    [C EXCEPT !.cache = DictSet(C.cache, key, receipt)]

ReceiptCache_put(C, key, receipt) ==
    LET kept == IF Len(C.cache) >= max_size THEN DictDelFirst(C.cache) ELSE C.cache
    IN  [C EXCEPT !.cache = DictSet(kept, key, receipt)]

\* mutant of ReceiptCache_clear: the counters are reset, the map is kept
ReceiptCache_clear_CountersOnly(C) == [C EXCEPT !.hits = 0, !.misses = 0]

ReceiptCache_clear(C) == [C EXCEPT !.cache = <<>>, !.hits = 0, !.misses = 0]

\* stats(): the hit rate is hits * 100 / total as a fraction, 0 without lookups
ReceiptCache_stats(C) ==
    [hits |-> C.hits, misses |-> C.misses,
     hit_rate |-> IF C.hits + C.misses > 0
                  THEN <<C.hits * 100, C.hits + C.misses>> ELSE <<0, 1>>,
     size |-> Len(C.cache)]

-----------------------------------------------------------------------------
(* ReceiptVerifier.verify_receipt.                                         *)

token == "TOKEN"

Digit(i) == <<"0", "1", "2", "3", "4", "5", "6", "7", "8", "9">>[i + 1]

\* str(i): the decimal digits, with a minus sign for a negative integer
RECURSIVE StrNat(_)
StrNat(i) == IF i < 10 THEN Digit(i) ELSE StrNat(i \div 10) \o Digit(i % 10)

Str(i) == IF i < 0 THEN "-" \o StrNat(0 - i) ELSE StrNat(i)

NoPromo == [given |-> FALSE, value |-> 0]
Promo(i) == [given |-> TRUE, value |-> i]

\* lines 415-419: request_dict before the token is added
RequestDictOf(req) == IF req.type = "RequestParams" THEN to_dict(req) ELSE req.d

\* mutant of CacheKeyOf: a qrurl request is keyed by its URL
CacheKeyOf_UrlKeyed(req) ==
    IF req.type = "RequestParams" THEN fingerprint(req)
    ELSE IF DictHas(req.d, "qrraw") THEN md5(DictGet(req.d, "qrraw", ""))
    ELSE IF DictHas(req.d, "qrurl") THEN md5(DictGet(req.d, "qrurl", ""))
    ELSE None

\* lines 415-423: cache_key
CacheKeyOf(req) ==
    IF req.type = "RequestParams" THEN fingerprint(req)
    ELSE IF DictHas(req.d, "qrraw") THEN md5(DictGet(req.d, "qrraw", ""))
    ELSE None

RECURSIVE AddUserdata(_, _)
AddUserdata(d, ud) ==
    IF ud = <<>> THEN d
    ELSE AddUserdata(DictSet(d, "userdata_" \o Head(ud)[1], Head(ud)[2]), Tail(ud))

\* lines 431-440: token, promo_id and userdata added.  `if promo_id:` and
\* `if userdata:` test truthiness: None, 0 and an empty dict add nothing.
Augment(d, promo, ud) ==
    LET d1 == DictSet(d, "token", token)
        d2 == IF promo.given /\ promo.value # 0
              THEN DictSet(d1, "promo_id", Str(promo.value)) ELSE d1
    IN  AddUserdata(d2, ud)

\* What one pass of the loop body does: the cache object after it, how the
\* pass ends ("continue", "return" or "raise"), the value returned or the
\* exception raised, and the delays slept (none or one).
Eff(C, next, value, exc, slept) ==
    [C |-> C, next |-> next, value |-> value, exc |-> exc, slept |-> slept]

\* mutant of SuccessCase: the Receipt is returned without being stored
SuccessCase_NoStore(result, key, C) ==
    IF from_api_response(result).kind = "raise"
    THEN Eff(C, "raise", ReceiptDefaults, from_api_response(result).exc, <<>>)
    ELSE Eff(C, "return", from_api_response(result).value, None, <<>>)

\* lines 452-457
SuccessCase(result, key, C) ==
    LET fr == from_api_response(result)
    IN  IF fr.kind = "raise"
        THEN Eff(C, "raise", ReceiptDefaults, fr.exc, <<>>)
        ELSE Eff(IF key # None /\ fr.value.is_valid
                 THEN ReceiptCache_put(C, key, fr.value) ELSE C,
                 "return", fr.value, None, <<>>)

\* lines 462-466
RetryCase(code, a, C) == Eff(C, "continue", ReceiptDefaults, None, <<get_delay(code, a)>>)

\* mutant of TerminalCase: the Receipt of a terminal response is stored too
TerminalCase_Caching(result, key, C) ==
    IF from_api_response(result).kind = "raise"
    THEN Eff(C, "raise", ReceiptDefaults, from_api_response(result).exc, <<>>)
    ELSE Eff(IF key # None
             THEN ReceiptCache_put(C, key, from_api_response(result).value) ELSE C,
             "return", from_api_response(result).value, None, <<>>)

\* lines 468-469
TerminalCase(result, key, C) ==
    LET fr == from_api_response(result)
    IN  IF fr.kind = "raise"
        THEN Eff(C, "raise", ReceiptDefaults, fr.exc, <<>>)
        ELSE Eff(C, "return", fr.value, None, <<>>)

\* lines 471-483: requests.exceptions.RequestException caught
NetworkErrorCase(a, C) ==
    IF a < max_retries - 1
    THEN Eff(C, "continue", ReceiptDefaults, None, <<network_delay(a)>>)
    ELSE Eff(C, "return", ErrorReceipt(-1, "Network error: " \o "e"), None, <<>>)

\* mutant of ResponseCase: a retryable code is retried on the last attempt too
ResponseCase_RetriesAlways(result, a, key, C) ==
    IF ResponseCode(result) = 1 THEN SuccessCase(result, key, C)
    ELSE IF should_retry(ResponseCode(result)) THEN RetryCase(ResponseCode(result), a, C)
    ELSE TerminalCase(result, key, C)

\* lines 449-469: a decoded response
ResponseCase(result, a, key, C) ==
    LET code == ResponseCode(result)
    IN  IF code = 1 THEN SuccessCase(result, key, C)
        ELSE IF should_retry(code) /\ a < max_retries - 1 THEN RetryCase(code, a, C)
        ELSE TerminalCase(result, key, C)

\* lines 444-483: the try statement for one outcome of requests.post
LoopBody(outcome, a, key, C) ==
    IF outcome.fail THEN NetworkErrorCase(a, C)
    ELSE ResponseCase(outcome.result, a, key, C)

NoRet == [kind |-> "none", value |-> ReceiptDefaults, exc |-> None, cached |-> FALSE]

Ret(kind, value, exc, cached) ==
    [kind |-> kind, value |-> value, exc |-> exc, cached |-> cached]

\* mutant of CallerRequestAfter: without the copy of line 418 the caller's
\* dict is the one the call writes to
CallerRequestAfter_NoCopy(req, d) ==
    IF req.type = "dict" THEN [req EXCEPT !.d = d] ELSE req

\* lines 415-418: the caller's request_data after the call has built
\* request_dict d: to_dict() and copy() give the call a dict of its own
CallerRequestAfter(req, d) == req

\* lines 414-440: from the call to the entry of the loop, or to the return of
\* a cached Receipt.  f is the state of the files argument.
VerifyStart(req, f, promo, ud) ==
    LET key == CacheKeyOf(req)
        g == ReceiptCache_get(rcache, key)
        d == IF key # None /\ g.found THEN RequestDictOf(req)
             ELSE Augment(RequestDictOf(req), promo, ud)
    IN  /\ pc = "idle"
        /\ key # None => rcache.hits + rcache.misses < MaxLookups
        /\ lastOp' = "verify"
        /\ request_data' = CallerRequestAfter(req, d)
        /\ promo_id' = promo
        /\ userdata' = ud
        /\ cache_key' = key
        /\ files' = f
        /\ closes' = 0
        /\ netCalls' = 0
        /\ sent' = <<>>
        /\ sleeps' = <<>>
        /\ recv' = <<>>
        /\ attempt' = 0
        /\ rcache' = IF key # None THEN g.obj ELSE rcache
        /\ IF key # None /\ g.found
           THEN /\ pc' = "idle"
                /\ ret' = Ret("return", g.value, None, TRUE)
                /\ request_dict' = RequestDictOf(req)
           ELSE /\ pc' = "loop"
                /\ ret' = NoRet
                /\ request_dict' = Augment(RequestDictOf(req), promo, ud)
        /\ lookups' = IF key # None THEN lookups + 1 ELSE lookups
        /\ UNCHANGED <<max_retries, traced, puts, lastGet, probe, wasCached, threads, bot>>

\* lines 443-489: one iteration of the for loop, finally clause included.
\* requests.post reads the attachment: on a closed handle it raises
\* ValueError, which the except clause does not catch.
Attempt(outcome) ==
    /\ pc = "loop"
    /\ attempt < max_retries
    /\ LET posted == files # "closed"
           e == IF posted THEN LoopBody(outcome, attempt, cache_key, rcache)
                ELSE Eff(rcache, "raise", ReceiptDefaults, "ValueError", <<>>)
       IN  /\ netCalls' = IF posted THEN netCalls + 1 ELSE netCalls
           /\ sent' = IF posted THEN Append(sent, request_dict) ELSE sent
           /\ recv' = IF posted /\ traced THEN Append(recv, outcome) ELSE recv
           /\ rcache' = e.C
           /\ sleeps' = sleeps \o e.slept
           /\ IF e.next = "continue"
              THEN /\ attempt' = attempt + 1
                   /\ pc' = "loop"
                   /\ ret' = ret
              ELSE /\ attempt' = attempt
                   /\ pc' = "idle"
                   /\ ret' = Ret(e.next, e.value, e.exc, FALSE)
    /\ files' = IF files = "none" THEN "none" ELSE "closed"
    /\ closes' = IF files = "none" THEN closes ELSE closes + 1
    /\ UNCHANGED <<max_retries, lastOp, request_data, promo_id, userdata,
                   cache_key, request_dict, traced, puts, lastGet, probe,
                   lookups, wasCached, threads, bot>>

\* lines 491-496: the loop ended without a return
Exhaust ==
    /\ pc = "loop"
    /\ attempt >= max_retries
    /\ pc' = "idle"
    /\ ret' = Ret("return", ErrorReceipt(-1, "Max retries exceeded"), None, FALSE)
    /\ UNCHANGED <<rcache, max_retries, lastOp, request_data, promo_id, userdata,
                   cache_key, request_dict, attempt, files, closes, netCalls,
                   sent, sleeps, traced, recv, puts, lastGet, probe, lookups,
                   wasCached, threads, bot>>

\* The record of the call that ended last, forgotten when another operation
\* runs: the locals of a finished call are dead.
Forgotten ==
    /\ request_data' = PyDict(<<>>)
    /\ promo_id' = NoPromo
    /\ userdata' = <<>>
    /\ cache_key' = None
    /\ request_dict' = <<>>
    /\ attempt' = 0
    /\ files' = "none"
    /\ closes' = 0
    /\ netCalls' = 0
    /\ sent' = <<>>
    /\ sleeps' = <<>>
    /\ recv' = <<>>

\* clear_cache(), between two calls
ClearCache ==
    /\ pc = "idle"
    /\ rcache' = ReceiptCache_clear(rcache)
    /\ lastOp' = "clear"
    /\ ret' = NoRet
    /\ puts' = <<>>
    /\ lastGet' = None
    /\ Forgotten
    /\ lookups' = 0
    /\ wasCached' = IF traced THEN DictKeys(rcache.cache) ELSE wasCached
    /\ UNCHANGED <<max_retries, pc, traced, probe, threads, bot>>

-----------------------------------------------------------------------------
(* Direct calls of the cache's methods, as a caller holding the            *)
(* ReceiptCache makes them.                                                *)

CacheGet(key) ==
    /\ pc = "idle"
    /\ rcache.hits + rcache.misses < MaxLookups
    /\ rcache' = ReceiptCache_get(rcache, key).obj
    /\ lastOp' = "get"
    /\ lastGet' = IF ReceiptCache_get(rcache, key).found THEN key ELSE lastGet
    /\ ret' = Ret("return", ReceiptCache_get(rcache, key).value, None,
                  ReceiptCache_get(rcache, key).found)
    /\ cache_key' = key
    /\ UNCHANGED <<max_retries, pc, request_data, promo_id, userdata,
                   request_dict, attempt, files, closes, netCalls, sent, sleeps,
                   traced, recv, puts, probe, wasCached, threads, bot>>
    /\ lookups' = lookups + 1

\* puts logs the key of each call and whether its receipt was valid
CachePut(key, receipt) ==
    /\ pc = "idle"
    /\ Len(puts) < MaxPuts
    /\ rcache' = ReceiptCache_put(rcache, key, receipt)
    /\ lastOp' = "put"
    /\ puts' = Append(puts, [key |-> key, is_valid |-> receipt.is_valid])
    /\ lastGet' = None
    /\ ret' = NoRet
    /\ cache_key' = key
    /\ UNCHANGED <<max_retries, pc, request_data, promo_id, userdata,
                   request_dict, attempt, files, closes, netCalls, sent, sleeps,
                   traced, recv, probe, lookups, wasCached, threads, bot>>

-----------------------------------------------------------------------------
(* verify_receipt run by several threads at once on one ReceiptVerifier,   *)
(* which is called from worker threads (asyncio.to_thread in the bot).     *)
(* The code takes no lock: a thread switch can happen between any two      *)
(* steps of get and put.                                                   *)

\* the threads explored
NumThreads == 2
Threads == 1..NumThreads

\* a thread outside verify_receipt: pc is its position, key its cache_key,
\* tmp the counter value it read, oldest the key it picked for eviction,
\* receipt the Receipt it formed, out how its last call ended, calls the
\* number of calls it has made
IdleThread ==
    [pc |-> "idle", key |-> None, tmp |-> 0, oldest |-> None,
     receipt |-> ReceiptDefaults, out |-> "none", calls |-> 0]

\* calls explored per thread
MaxCallsPerThread == 2

\* what the threads do not share, and the state of the sequential caller
unshared ==
    <<max_retries, pc, lastOp, request_data, promo_id, userdata, cache_key,
      request_dict, attempt, files, closes, netCalls, sent, sleeps, traced, recv,
      ret, puts, lastGet, probe, wasCached>>

\* thread t ends its call
Finish(t, out) == [threads[t] EXCEPT !.pc = "idle", !.out = out]

\* lines 414-426: the call starts; with a cache_key it enters ReceiptCache.get
TStart(t, key) ==
    /\ threads[t].pc = "idle"
    /\ threads[t].calls < MaxCallsPerThread
    /\ threads' = [threads EXCEPT ![t] =
                     [IdleThread EXCEPT !.pc = IF key # None THEN "get_check" ELSE "net",
                                        !.key = key, !.calls = threads[t].calls + 1]]
    /\ lookups' = IF key # None THEN lookups + 1 ELSE lookups
    /\ UNCHANGED <<rcache, unshared, bot>>

\* line 346: if key in self.cache
TGetCheck(t) ==
    /\ threads[t].pc = "get_check"
    /\ threads' = [threads EXCEPT ![t].pc =
                     IF DictHas(rcache.cache, threads[t].key) THEN "hit_read" ELSE "miss_read"]
    /\ UNCHANGED <<rcache, lookups, unshared, bot>>

\* line 347, self.hits += 1: the load
THitRead(t) ==
    /\ threads[t].pc = "hit_read"
    /\ threads' = [threads EXCEPT ![t].pc = "hit_write", ![t].tmp = rcache.hits]
    /\ UNCHANGED <<rcache, lookups, unshared, bot>>

\* line 347, self.hits += 1: the store
THitWrite(t) ==
    /\ threads[t].pc = "hit_write"
    /\ rcache' = [rcache EXCEPT !.hits = threads[t].tmp + 1]
    /\ threads' = [threads EXCEPT ![t].pc = "hit_return"]
    /\ UNCHANGED <<lookups, unshared, bot>>

\* lines 349 and 428-429: return self.cache[key]; KeyError when the key was
\* evicted since line 346
THitReturn(t) ==
    /\ threads[t].pc = "hit_return"
    /\ threads' = [threads EXCEPT ![t] =
                     IF DictHas(rcache.cache, threads[t].key)
                     THEN [Finish(t, "cached") EXCEPT
                              !.receipt = DictGet(rcache.cache, threads[t].key, ReceiptDefaults)]
                     ELSE Finish(t, "KeyError")]
    /\ UNCHANGED <<rcache, lookups, unshared, bot>>

\* line 350, self.misses += 1: the load
TMissRead(t) ==
    /\ threads[t].pc = "miss_read"
    /\ threads' = [threads EXCEPT ![t].pc = "miss_write", ![t].tmp = rcache.misses]
    /\ UNCHANGED <<rcache, lookups, unshared, bot>>

\* line 350, self.misses += 1: the store; get returns None
TMissWrite(t) ==
    /\ threads[t].pc = "miss_write"
    /\ rcache' = [rcache EXCEPT !.misses = threads[t].tmp + 1]
    /\ threads' = [threads EXCEPT ![t].pc = "net"]
    /\ UNCHANGED <<lookups, unshared, bot>>

\* lines 431-496 but the put: the retry loop touches nothing shared; res is
\* how it ends.  A valid Receipt of a call with a cache_key goes to put.
TNet(t, res) ==
    /\ threads[t].pc = "net"
    /\ threads' = [threads EXCEPT ![t] =
                     IF res.kind = "raise" THEN Finish(t, res.exc)
                     ELSE IF ~res.value.is_valid THEN Finish(t, "invalid")
                     ELSE IF threads[t].key = None
                     THEN [Finish(t, "valid") EXCEPT !.receipt = res.value]
                     ELSE [threads[t] EXCEPT !.pc = "put_check", !.receipt = res.value]]
    /\ UNCHANGED <<rcache, lookups, unshared, bot>>

\* line 355: if len(self.cache) >= self.max_size
TPutCheck(t) ==
    /\ threads[t].pc = "put_check"
    /\ threads' = [threads EXCEPT ![t].pc =
                     IF Len(rcache.cache) >= max_size THEN "put_oldest" ELSE "put_store"]
    /\ UNCHANGED <<rcache, lookups, unshared, bot>>

\* line 357: oldest_key = next(iter(self.cache)); StopIteration on an empty dict
TPutOldest(t) ==
    /\ threads[t].pc = "put_oldest"
    /\ threads' = [threads EXCEPT ![t] =
                     IF rcache.cache = <<>> THEN Finish(t, "StopIteration")
                     ELSE [threads[t] EXCEPT !.pc = "put_del", !.oldest = rcache.cache[1][1]]]
    /\ UNCHANGED <<rcache, lookups, unshared, bot>>

\* line 358: del self.cache[oldest_key]; KeyError when the key is gone
TPutDel(t) ==
    /\ threads[t].pc = "put_del"
    /\ IF DictHas(rcache.cache, threads[t].oldest)
       THEN /\ rcache' = [rcache EXCEPT !.cache = DictDel(rcache.cache, threads[t].oldest)]
            /\ threads' = [threads EXCEPT ![t].pc = "put_store"]
       ELSE /\ rcache' = rcache
            /\ threads' = [threads EXCEPT ![t] = Finish(t, "KeyError")]
    /\ UNCHANGED <<lookups, unshared, bot>>

\* line 359 and 457: self.cache[key] = _receipt; the Receipt is returned
TPutStore(t) ==
    /\ threads[t].pc = "put_store"
    /\ rcache' = [rcache EXCEPT !.cache = DictSet(rcache.cache, threads[t].key, threads[t].receipt)]
    /\ threads' = [threads EXCEPT ![t] = Finish(t, "valid")]
    /\ UNCHANGED <<lookups, unshared, bot>>

-----------------------------------------------------------------------------
(* Direct calls of the pure methods: RetryHandler.should_retry,            *)
(* RetryHandler.get_delay and Receipt.from_api_response.  probe holds the  *)
(* arguments and the result of the last one.                               *)

\* the record of a to_csv call: its arguments, the file system before and
\* after, its outcome
NoCsv ==
    [self |-> ReceiptDefaults, filename |-> None, receipts_dir |-> "receipts",
     before |-> Fs("absent", TRUE), after |-> Fs("absent", TRUE),
     out |-> [kind |-> "none", value |-> None, exc |-> None]]

NoProbe ==
    [op |-> "none", base |-> <<base_delay, 1>>, code |-> 0, a |-> 0, response |-> <<>>,
     retry |-> FALSE, delay |-> <<0, 1>>, out |-> Raised(None), csv |-> NoCsv]

\* RetryHandler(base_delay=base).should_retry(code)
ShouldRetryCall(base, code) ==
    /\ pc = "idle"
    /\ probe' = [NoProbe EXCEPT !.op = "should_retry", !.base = base, !.code = code,
                                !.retry = should_retry(code)]
    /\ UNCHANGED <<rcache, max_retries, pc, lastOp, request_data, promo_id, userdata,
                   cache_key, request_dict, attempt, files, closes, netCalls, sent,
                   sleeps, traced, recv, ret, puts, lastGet, lookups, wasCached,
                   threads, bot>>

\* RetryHandler(base_delay=base).get_delay(code, a)
GetDelayCall(base, code, a) ==
    /\ pc = "idle"
    /\ probe' = [NoProbe EXCEPT !.op = "get_delay", !.base = base, !.code = code, !.a = a,
                                !.delay = RetryHandler_get_delay(base, code, a)]
    /\ UNCHANGED <<rcache, max_retries, pc, lastOp, request_data, promo_id, userdata,
                   cache_key, request_dict, attempt, files, closes, netCalls, sent,
                   sleeps, traced, recv, ret, puts, lastGet, lookups, wasCached,
                   threads, bot>>

\* Receipt.from_api_response(response)
FromApiResponseCall(response) ==
    /\ pc = "idle"
    /\ probe' = [NoProbe EXCEPT !.op = "from_api_response", !.response = response,
                                !.code = ResponseCode(response),
                                !.out = from_api_response(response)]
    /\ UNCHANGED <<rcache, max_retries, pc, lastOp, request_data, promo_id, userdata,
                   cache_key, request_dict, attempt, files, closes, netCalls, sent,
                   sleeps, traced, recv, ret, puts, lastGet, lookups, wasCached,
                   threads, bot>>

\* self.to_csv(filename, receipts_dir) on the file system fs
ToCsvCall(self, filename, receipts_dir, fs) ==
    /\ pc = "idle"
    /\ probe' = [NoProbe EXCEPT !.op = "to_csv",
                                !.csv = [self |-> self, filename |-> filename,
                                         receipts_dir |-> receipts_dir, before |-> fs,
                                         after |-> to_csv(self, filename, receipts_dir, fs).fs,
                                         out |-> to_csv(self, filename, receipts_dir, fs).out]]
    /\ UNCHANGED <<rcache, max_retries, pc, lastOp, request_data, promo_id, userdata,
                   cache_key, request_dict, attempt, files, closes, netCalls, sent,
                   sleeps, traced, recv, ret, puts, lastGet, lookups, wasCached,
                   threads, bot>>

-----------------------------------------------------------------------------
(* telegram_receipt_bot.py: ReceiptBot and what it is built from.  bot is  *)
(* a record: day is the date of the clock, data the content of             *)
(* api_requests.json, conv the state of each user's manual-entry           *)
(* conversation, user_data each user's context.user_data, csv the paths in *)
(* receipts_dir, qr_cache the bot's qr_cache, buttons the callback_data of *)
(* the reverify buttons the bot has sent, tasks the handlers in progress.  *)

DigitChars == {"0", "1", "2", "3", "4", "5", "6", "7", "8", "9"}

\* str.isdigit(), for ASCII text
isdigit(str) ==
    Len(str) > 0 /\ \A i \in 1..Len(str) : SubSeq(str, i, i) \in DigitChars

\* sub in str
Contains(str, sub) ==
    \E i \in 1..(Len(str) - Len(sub) + 1) : SubSeq(str, i, i + Len(sub) - 1) = sub

EndsWith(str, suffix) ==
    Len(str) >= Len(suffix) /\ SubSeq(str, Len(str) - Len(suffix) + 1, Len(str)) = suffix

HasPrefix(str, prefix) ==
    Len(str) >= Len(prefix) /\ SubSeq(str, 1, Len(prefix)) = prefix

\* the place of the first sep in str (sep is one character, and is there)
IndexOf(str, sep) ==
    CHOOSE i \in 1..Len(str) :
        SubSeq(str, i, i) = sep /\ \A j \in 1..(i - 1) : SubSeq(str, j, j) # sep

\* str.split(sep)
RECURSIVE split(_, _)
split(str, sep) ==
    IF ~Contains(str, sep) THEN <<str>>
    ELSE <<SubSeq(str, 1, IndexOf(str, sep) - 1)>>
         \o split(SubSeq(str, IndexOf(str, sep) + 1, Len(str)), sep)

\* float(text) succeeds, for text with no sign, exponent, blank, "inf" or
\* "nan": digits with at most one '.', and '_' only between two digits
float_parses(text) ==
    /\ \E i \in 1..Len(text) : SubSeq(text, i, i) \in DigitChars
    /\ \A i \in 1..Len(text) : SubSeq(text, i, i) \in DigitChars \cup {".", "_"}
    /\ Cardinality({i \in 1..Len(text) : SubSeq(text, i, i) = "."}) <= 1
    /\ \A i \in 1..Len(text) :
          SubSeq(text, i, i) = "_" =>
              /\ i > 1 /\ i < Len(text)
              /\ SubSeq(text, i - 1, i - 1) \in DigitChars
              /\ SubSeq(text, i + 1, i + 1) \in DigitChars

\* the users who send updates, and AuthManager.authorized_users: the list
\* is read when the bot is constructed and reload() is never called
Users == {"alice", "mallory"}
authorized_users == {"alice"}

is_authorized(user_id) == user_id \in authorized_users

\* APIRateLimiter.limit.  ReceiptBot constructs the limiter with
\* limit=MAX_DAILY_REQUESTS (15); the quota explored is smaller, and the
\* handlers treat every value of it alike
limit == 2

\* ReceiptBot.__init__: ReceiptVerifier(token, max_retries=3, cache_size=500)
bot_max_retries == 3

\* days of the clock explored
MaxDay == 1

\* cache lookups of the bot's verifier explored
MaxBotLookups == 2

\* mutant of concurrent_updates: Application.builder().concurrent_updates(True)
concurrent_updates_Enabled == TRUE

\* build_application: Application.builder().token(...).build() leaves
\* concurrent_updates off and every handler blocking, so the application
\* awaits the handler of an update before it takes the next update
concurrent_updates == FALSE

\* APIRateLimiter._read_data followed by _reset_if_new_day: the data the
\* file holds afterwards
read_and_reset(data, today) ==
    IF data.date # today THEN [date |-> today, count |-> 0] ELSE data

\* APIRateLimiter.can_make_request, on the data after the reset
can_make_request(data, today) == read_and_reset(data, today).count < limit

\* APIRateLimiter.increment: the data the file holds afterwards
increment(data, today) == [read_and_reset(data, today) EXCEPT !.count = @ + 1]

receipts_dir == "receipts"

\* ReceiptBot._extract_params_from_qr
RECURSIVE extract_pairs(_, _)
extract_pairs(pairs, params) ==
    IF pairs = <<>> THEN params
    ELSE LET pair == Head(pairs)
             key == SubSeq(pair, 1, IndexOf(pair, "=") - 1)
             value == SubSeq(pair, IndexOf(pair, "=") + 1, Len(pair))
         IN  extract_pairs(Tail(pairs),
                           IF Contains(pair, "=") /\ key \in {"fn", "fd", "fp", "i"}
                           THEN DictSet(params, key, value) ELSE params)

extract_params_from_qr(qr_string) ==
    LET params == extract_pairs(split(qr_string, "&"), <<>>)
    IN  IF DictHas(params, "i") THEN DictSet(params, "fd", DictGet(params, "i", ""))
        ELSE params

\* mutant of find_existing_receipt: nothing is ever found
find_existing_receipt_Blind(params, csv) == {}

\* ReceiptBot._find_existing_receipt: the paths that
\* glob(receipts_dir/*_<fn>_<fd>_<fp>.csv) gives, none when a field is missing
find_existing_receipt(params, csv) ==
    LET fn == DictGet(params, "fn", "")
        fd == DictGet(params, "fd", "")
        fp == DictGet(params, "fp", "")
    IN  IF fn = "" \/ fd = "" \/ fp = "" THEN {}
        ELSE {path \in csv :
                /\ HasPrefix(path, receipts_dir \o "/")
                /\ EndsWith(SubSeq(path, Len(receipts_dir) + 2, Len(path)),
                            "_" \o fn \o "_" \o fd \o "_" \o fp \o ".csv")}

\* hashlib.md5(qr_string.encode()).hexdigest()[:8]: the first 8 digits of
\* the digest, which tell apart the strings explored
qr_hash(qr_string) == "8:" \o md5(qr_string)

\* the conversation states; END is ConversationHandler.END
ConvStates == <<"ASKING_FN", "ASKING_FD", "ASKING_FP", "ASKING_T", "ASKING_N", "ASKING_S">>
END == "END"

\* no handler of the user is in progress
NoTask == [handler |-> "none", request |-> PyDict(<<>>)]

\* a handler that has passed its checks and runs or awaits its
\* verify_receipt call
Task(handler, request) == [handler |-> handler, request |-> request]

NoBot ==
    [day |-> 0, data |-> [date |-> 0, count |-> 0],
     conv |-> [u \in Users |-> END], user_data |-> [u \in Users |-> <<>>],
     csv |-> {}, qr_cache |-> <<>>, buttons |-> {},
     tasks |-> [u \in Users |-> NoTask]]

\* what the handlers do not touch before and after their verify_receipt call
verifier ==
    <<rcache, max_retries, pc, lastOp, request_data, promo_id, userdata, cache_key,
      request_dict, attempt, files, closes, netCalls, sent, sleeps, traced, recv,
      ret, puts, lastGet, probe, lookups, wasCached, threads>>

\* the application hands an update of user u to its handler
Dispatchable(u) ==
    /\ bot.tasks[u] = NoTask
    /\ concurrent_updates \/ \A v \in Users : bot.tasks[v] = NoTask

\* the clock passes midnight
NewDay ==
    /\ bot.day < MaxDay
    /\ bot' = [bot EXCEPT !.day = @ + 1]
    /\ UNCHANGED verifier

\* lines 490-502: the entry point of the conversation, under require_auth
manual_entry_start(u) ==
    /\ Dispatchable(u)
    /\ bot.conv[u] = END
    /\ bot' = IF is_authorized(u) THEN [bot EXCEPT !.conv[u] = "ASKING_FN"] ELSE bot
    /\ UNCHANGED verifier

\* the bot after a step of the conversation: text is stored under key and
\* the conversation moves to next when ok holds, nothing changes otherwise
ask_step(u, text, key, ok, next) ==
    IF ok THEN [bot EXCEPT !.user_data[u] = DictSet(@, key, text), !.conv[u] = next]
    ELSE bot

\* lines 504-525
ask_fn(u, text) ==
    /\ Dispatchable(u)
    /\ bot.conv[u] = "ASKING_FN"
    /\ bot' = ask_step(u, text, "fn", isdigit(text), "ASKING_FD")
    /\ UNCHANGED verifier

\* lines 527-548
ask_fd(u, text) ==
    /\ Dispatchable(u)
    /\ bot.conv[u] = "ASKING_FD"
    /\ bot' = ask_step(u, text, "fd", isdigit(text), "ASKING_FP")
    /\ UNCHANGED verifier

\* lines 550-571
ask_fp(u, text) ==
    /\ Dispatchable(u)
    /\ bot.conv[u] = "ASKING_FP"
    /\ bot' = ask_step(u, text, "fp", isdigit(text), "ASKING_T")
    /\ UNCHANGED verifier

\* the check of ask_t
t_ok(text) == Len(text) = 13 /\ Contains(text, "T")

\* lines 573-599
ask_t(u, text) ==
    /\ Dispatchable(u)
    /\ bot.conv[u] = "ASKING_T"
    /\ bot' = ask_step(u, text, "t", t_ok(text), "ASKING_N")
    /\ UNCHANGED verifier

\* the check of ask_n
n_ok(text) == text \in {"1", "2", "3", "4"}

\* lines 601-620
ask_n(u, text) ==
    /\ Dispatchable(u)
    /\ bot.conv[u] = "ASKING_N"
    /\ bot' = ask_step(u, text, "n", n_ok(text), "ASKING_S")
    /\ UNCHANGED verifier

\* line 659 and line 665: the callback_data of the manual reverify button
reverify_manual_data(ud, text) ==
    "reverify_manual_" \o DictGet(ud, "fn", "") \o "_" \o DictGet(ud, "fd", "") \o "_"
    \o DictGet(ud, "fp", "") \o "_" \o DictGet(ud, "t", "") \o "_"
    \o DictGet(ud, "n", "") \o "_" \o text

\* lines 695-703
manual_params_dict(fn, fd, fp, t, n, s) ==
    << <<"fn", fn>>, <<"fd", fd>>, <<"fp", fp>>, <<"t", t>>, <<"n", n>>, <<"s", s>>,
       <<"qr", "0">> >>

\* lines 622-707: ask_s up to its verify_receipt call
ask_s(u, text) ==
    LET ud == DictSet(bot.user_data[u], "s", text)
        params == << <<"fn", DictGet(ud, "fn", "")>>, <<"fd", DictGet(ud, "fd", "")>>,
                     <<"fp", DictGet(ud, "fp", "")>> >>
    IN  /\ Dispatchable(u)
        /\ bot.conv[u] = "ASKING_S"
        /\ bot' =
             IF ~float_parses(text) THEN bot
             ELSE IF find_existing_receipt(params, bot.csv) # {}
             THEN [bot EXCEPT !.buttons = @ \cup {reverify_manual_data(ud, text)},
                              !.user_data[u] = <<>>, !.conv[u] = END]
             ELSE IF ~can_make_request(bot.data, bot.day)
             THEN [bot EXCEPT !.data = read_and_reset(@, bot.day),
                              !.user_data[u] = <<>>, !.conv[u] = END]
             ELSE [bot EXCEPT !.data = read_and_reset(@, bot.day),
                              !.user_data[u] = ud,
                              !.tasks[u] =
                                  Task("ask_s",
                                       from_manual_params(
                                           manual_params_dict(
                                               DictGet(ud, "fn", ""), DictGet(ud, "fd", ""),
                                               DictGet(ud, "fp", ""), DictGet(ud, "t", ""),
                                               DictGet(ud, "n", ""), DictGet(ud, "s", ""))))]
        /\ UNCHANGED verifier

\* lines 725-732: the cancel button at any step, or the /cancel fallback
cancel(u) ==
    /\ Dispatchable(u)
    /\ bot.conv[u] # END
    /\ bot' = [bot EXCEPT !.user_data[u] = <<>>, !.conv[u] = END]
    /\ UNCHANGED verifier

\* lines 391-475: handle_qr_string up to its verify_receipt call.  The
\* handler is registered after the conversation, which takes the texts of a
\* user it is asking.
handle_qr_string(u, qr_string) ==
    /\ Dispatchable(u)
    /\ bot.conv[u] = END
    /\ rcache.hits + rcache.misses < MaxBotLookups
    /\ bot' =
         IF ~is_authorized(u) THEN bot
         ELSE IF ~(Contains(qr_string, "t=") /\ Contains(qr_string, "s=")
                   /\ Contains(qr_string, "fn="))
         THEN bot
         ELSE IF find_existing_receipt(extract_params_from_qr(qr_string), bot.csv) # {}
         THEN [bot EXCEPT !.qr_cache = DictSet(@, qr_hash(qr_string), qr_string),
                          !.buttons = @ \cup {"reverify_qr_" \o qr_hash(qr_string)}]
         ELSE IF ~can_make_request(bot.data, bot.day)
         THEN [bot EXCEPT !.data = read_and_reset(@, bot.day)]
         ELSE [bot EXCEPT !.data = read_and_reset(@, bot.day),
                          !.tasks[u] = Task("handle_qr_string", from_qr_string(qr_string))]
    /\ UNCHANGED verifier

\* lines 868-869: the six fields handle_reverify reads from a manual button
reverify_parts(callback_data) ==
    split(SubSeq(callback_data, Len("reverify_manual_") + 1, Len(callback_data)), "_")

\* lines 845-908: handle_reverify up to its verify_receipt call.  The
\* handler is registered without require_auth; the user is whoever pressed
\* the button.
handle_reverify(u, callback_data) ==
    /\ Dispatchable(u)
    /\ callback_data \in bot.buttons
    /\ HasPrefix(callback_data, "reverify_qr_") => rcache.hits + rcache.misses < MaxBotLookups
    /\ bot' =
         IF ~can_make_request(bot.data, bot.day)
         THEN [bot EXCEPT !.data = read_and_reset(@, bot.day)]
         ELSE IF HasPrefix(callback_data, "reverify_manual_")
         THEN IF Len(reverify_parts(callback_data)) < 6
              THEN [bot EXCEPT !.data = read_and_reset(@, bot.day)]
              ELSE [bot EXCEPT !.data = read_and_reset(@, bot.day),
                               !.tasks[u] =
                                   Task("handle_reverify",
                                        from_manual_params(
                                            manual_params_dict(
                                                reverify_parts(callback_data)[1],
                                                reverify_parts(callback_data)[2],
                                                reverify_parts(callback_data)[3],
                                                reverify_parts(callback_data)[4],
                                                reverify_parts(callback_data)[5],
                                                reverify_parts(callback_data)[6])))]
         ELSE IF HasPrefix(callback_data, "reverify_qr_")
                 /\ DictHas(bot.qr_cache,
                            SubSeq(callback_data, Len("reverify_qr_") + 1, Len(callback_data)))
         THEN [bot EXCEPT !.data = read_and_reset(@, bot.day),
                          !.tasks[u] =
                              Task("handle_reverify",
                                   from_qr_string(
                                       DictGet(bot.qr_cache,
                                               SubSeq(callback_data, Len("reverify_qr_") + 1,
                                                      Len(callback_data)), "")))]
         ELSE [bot EXCEPT !.data = read_and_reset(@, bot.day)]
    /\ UNCHANGED verifier

\* lines 475, 707, 883 and 908: the handler of user u calls verify_receipt,
\* when no result of an earlier call is waiting for its handler
verify(u) ==
    /\ bot.tasks[u] # NoTask
    /\ ret = NoRet
    /\ VerifyStart(bot.tasks[u].request, "none", NoPromo, <<>>)

\* lines 478-479, 710-711, 886-887 and 911-912: if receipt.is_valid
counts_against_quota(out) == out.kind = "return" /\ out.value.is_valid

\* the receipts directory as to_csv meets it: made by ReceiptBot.__init__,
\* writable, holding the paths written so far
receipts_fs(csv) == [Fs("dir", TRUE) EXCEPT !.written = csv]

\* lines 476-488, 708-723, 884-922 and _send_receipt_result (734-798): the
\* handler of user u after its verify_receipt call has ended: the counter,
\* the CSV saved for a valid Receipt, the end of the conversation.  The
\* locals of the call die with the handler.
handler_end(u) ==
    LET task == bot.tasks[u]
        valid == ret.kind = "return" /\ ret.value.is_valid
    IN  /\ task # NoTask
        /\ pc = "idle"
        /\ ret # NoRet
        /\ request_data = task.request
        /\ bot' = [bot EXCEPT
                     !.data = IF counts_against_quota(ret) THEN increment(@, bot.day) ELSE @,
                     !.csv = IF valid
                             THEN to_csv(ret.value, None, receipts_dir, receipts_fs(@)).fs.written
                             ELSE @,
                     !.tasks[u] = NoTask,
                     !.user_data[u] = IF task.handler = "ask_s" THEN <<>> ELSE @,
                     !.conv[u] = IF task.handler = "ask_s" THEN END ELSE @]
        /\ ret' = NoRet
        /\ Forgotten
        /\ UNCHANGED <<rcache, max_retries, pc, lastOp, traced, puts, lastGet, probe,
                       lookups, wasCached, threads>>

-----------------------------------------------------------------------------
(* The inputs explored.                                                    *)

\* QR payload carrying the given fields, in the format of from_qr_string's docstring
QrPayload(t, s, fn, i, fp, n) ==
    "t=" \o t \o "&s=" \o s \o "&fn=" \o fn \o "&i=" \o i \o "&fp=" \o fp \o "&n=" \o n

ParamsA == RequestParams("11", "22", "33", "T1", "1", "10", "0")
ParamsA2 == RequestParams("11", "22", "33", "T1", "2", "20", "1")
ParamsB == RequestParams("44", "22", "33", "T1", "1", "10", "0")
ManualA == from_manual_params(to_dict(ParamsA))
QrA == from_qr_string(QrPayload("T1", "10", "11", "22", "33", "1"))
QrC == from_qr_string(QrPayload("T2", "10", "55", "22", "33", "1"))
UrlA == from_qr_url("http://x/qr.jpg")

UserdataA == << <<"shop", "7">> >>

\* the calls explored: request_data, the state of files, promo_id, userdata
Calls ==
    {<<r, "none", NoPromo, <<>> >> : r \in {ParamsA, ParamsA2, ParamsB, ManualA, QrA, UrlA}}
    \cup {<<from_qr_file_data, "open", NoPromo, <<>> >>,
          <<ParamsA, "none", Promo(7), UserdataA>>,
          <<QrA, "none", Promo(0), <<>> >>}

Item(name, price, quantity, sum) ==
    << <<"name", name>>, <<"price", price>>, <<"quantity", quantity>>, <<"sum", sum>> >>

\* a code 1 body
OkBody(dateTime, totalSum) ==
    << <<"code", 1>>,
       <<"data", << <<"json", << <<"dateTime", dateTime>>, <<"user", "Shop">>,
                                  <<"fiscalDriveNumber", "11">>,
                                  <<"items", <<Item("tea", 10050, 2, 20100)>> >>,
                                  <<"totalSum", totalSum>>, <<"nds", 1827>> >> >>,
                    <<"html", "<table/>">> >> >> >>

CodeBody(code) == << <<"code", code>> >>

OkA == OkBody("2020-09-24T18:37:00", 100000)
OkB == OkBody("2020-09-24T18:37:00", 20100)
\* code 1 with a timestamp that does not match the format
OkBadDate == OkBody("24.09.2020", 100000)

Bodies == {OkA, OkB, OkBadDate, CodeBody(0), CodeBody(3), << <<"error", "no code">> >>}

\* what requests.post / raise_for_status / response.json() give: a
\* RequestException or a decoded body
Outcomes ==
    {[fail |-> TRUE, result |-> <<>>]} \cup {[fail |-> FALSE, result |-> b] : b \in Bodies}

\* Receipts a direct caller of put may hand over
SomeReceipts ==
    {from_api_response(OkA).value, from_api_response(OkB).value,
     from_api_response(CodeBody(0)).value}

SomeKeys == {CacheKeyOf(ParamsA), CacheKeyOf(ParamsB), CacheKeyOf(QrA)}

\* a body with a code and the service's error text
ErrorBody(code, error) == << <<"code", code>>, <<"error", error>> >>

\* code 1 with a payload that carries no dateTime
OkNoDate ==
    << <<"code", 1>>,
       <<"data", << <<"json", << <<"totalSum", 100000>>,
                                  <<"items", <<Item("tea", 10050, 2, 20100)>> >> >> >> >> >> >>

\* code 1 with two items, every total and every VAT bucket
OkFull ==
    << <<"code", 1>>,
       <<"data", << <<"json", << <<"dateTime", "2020-09-24T18:37:00">>,
                                  <<"items", <<Item("tea", 10050, 2, 20100),
                                               Item("bun", 4999, 3, 14997)>> >>,
                                  <<"totalSum", 35097>>, <<"cashTotalSum", 5097>>,
                                  <<"ecashTotalSum", 30000>>, <<"nds18", 3350>>,
                                  <<"nds", 1363>>, <<"nds0", 1>>, <<"ndsNo", 99>> >> >> >> >> >>

\* code 1 with an empty dateTime
OkEmptyDate == OkBody("", 100000)

\* the decoded bodies of the retry exploration: every code of the table, a
\* code outside it without an error text, with one and with an empty one, a
\* body without code, code 1 with and without a timestamp that parses
RetryBodies ==
    {CodeBody(c) : c \in {0, 2, 3, 4, 5, 7}}
    \cup {ErrorBody(7, "bad token"), ErrorBody(7, ""), << <<"error", "no code">> >>,
          OkA, OkBadDate, OkNoDate}

RetryOutcomes ==
    {[fail |-> TRUE, result |-> <<>>]} \cup {[fail |-> FALSE, result |-> b] : b \in RetryBodies}

\* the calls of the retry exploration: with a fingerprint, with an
\* attachment, with promo_id and userdata
RetryCalls ==
    {<<ParamsA, "none", NoPromo, <<>> >>,
     <<from_qr_file_data, "open", NoPromo, <<>> >>,
     <<UrlA, "none", Promo(7), UserdataA>>}

\* the inputs of the direct calls of the pure methods
MaxAttemptIndex == 4
MaxCode == 6
Codes == -1..MaxCode
Bases == {<<1, 1>>, <<1, 2>>, <<3, 1>>}
ParseBodies == RetryBodies \cup {OkB, OkEmptyDate, OkFull, CodeBody(1), CodeBody(-1), <<>>}

-----------------------------------------------------------------------------

\* no thread is inside verify_receipt
NoThreads == [t \in Threads |-> IdleThread]

\* the state after ReceiptVerifier(token, max_retries, cache_size)
Constructed ==
    /\ rcache = NewCache
    /\ max_retries \in 0..MaxRetries
    /\ pc = "idle"
    /\ lastOp = "none"
    /\ request_data = PyDict(<<>>)
    /\ promo_id = NoPromo
    /\ userdata = <<>>
    /\ cache_key = None
    /\ request_dict = <<>>
    /\ attempt = 0
    /\ files = "none"
    /\ closes = 0
    /\ netCalls = 0
    /\ sent = <<>>
    /\ sleeps = <<>>
    /\ recv = <<>>
    /\ ret = NoRet
    /\ puts = <<>>
    /\ lastGet = None
    /\ probe = NoProbe
    /\ lookups = 0
    /\ wasCached = {}
    /\ threads = NoThreads
    /\ bot = NoBot

Init == Constructed /\ traced = FALSE

\* sequential verify_receipt and clear_cache calls
Next ==
    \/ \E c \in Calls : VerifyStart(c[1], c[2], c[3], c[4])
    \/ \E o \in Outcomes : Attempt(o)
    \/ Exhaust
    \/ ClearCache

Spec == Init /\ [][Next]_vars

\* sequential get, put and clear calls on a ReceiptCache
NextCache ==
    \/ \E k \in SomeKeys : CacheGet(k)
    \/ \E k \in SomeKeys, r \in SomeReceipts : CachePut(k, r)
    \/ ClearCache

InitCache == Init /\ max_retries = MaxRetries

SpecCache == InitCache /\ [][NextCache]_vars

\* verify_receipt calls against a transport that records what it gives
NextRetry ==
    \/ \E c \in RetryCalls : VerifyStart(c[1], c[2], c[3], c[4])
    \/ \E o \in RetryOutcomes : Attempt(o)
    \/ Exhaust
    \/ ClearCache

InitRetry == Constructed /\ traced = TRUE

SpecRetry == InitRetry /\ [][NextRetry]_vars

\* direct calls of should_retry, get_delay and from_api_response
\* the to_csv calls explored: a valid Receipt with one item, one with two,
\* an invalid one; a generated and a given file name
CsvReceipts ==
    {from_api_response(OkA).value, from_api_response(OkFull).value,
     from_api_response(CodeBody(0)).value}

CsvFilenames == {None, "out.csv"}

FileSystems == {Fs(at, w) : at \in DirStates, w \in BOOLEAN}

NextPure ==
    \/ \E b \in Bases, c \in Codes : ShouldRetryCall(b, c)
    \/ \E b \in Bases, c \in Codes, a \in 0..MaxAttemptIndex : GetDelayCall(b, c, a)
    \/ \E r \in ParseBodies : FromApiResponseCall(r)
    \/ \E r \in CsvReceipts, f \in CsvFilenames, fs \in FileSystems :
          ToCsvCall(r, f, "receipts", fs)

SpecPure == Init /\ [][NextPure]_vars

\* how the retry loop of a thread ends
LoopResults == {from_api_response(OkA), from_api_response(CodeBody(0)), from_api_response(OkNoDate)}

\* the cache_key of a thread's request: a fingerprint, or None
ThreadKeys == SomeKeys \cup {None}

\* verify_receipt calls of several threads, interleaved at the steps of
\* ReceiptCache.get and ReceiptCache.put
NextThreads ==
    \/ \E t \in Threads, k \in ThreadKeys : TStart(t, k)
    \/ \E t \in Threads : TGetCheck(t)
    \/ \E t \in Threads : THitRead(t)
    \/ \E t \in Threads : THitWrite(t)
    \/ \E t \in Threads : THitReturn(t)
    \/ \E t \in Threads : TMissRead(t)
    \/ \E t \in Threads : TMissWrite(t)
    \/ \E t \in Threads, res \in LoopResults : TNet(t, res)
    \/ \E t \in Threads : TPutCheck(t)
    \/ \E t \in Threads : TPutOldest(t)
    \/ \E t \in Threads : TPutDel(t)
    \/ \E t \in Threads : TPutStore(t)

SpecThreads == InitCache /\ [][NextThreads]_vars

\* requests whose fields hold the separator of the fingerprint, and a raw
\* payload that is the pre-hash string of ParamsA
ParamsU == RequestParams("1_2", "3", "33", "T1", "1", "10", "0")
ParamsV == RequestParams("1", "2_3", "33", "T1", "1", "10", "0")
QrU == from_qr_string("11_22_33_T1")

KeyRequests == {ParamsA, ParamsB, ParamsU, ParamsV, QrA, QrU}

\* the service's answer about the receipt a RequestParams request names
EchoBody(req) ==
    << <<"code", 1>>,
       <<"data", << <<"json", << <<"dateTime", "2020-09-24T18:37:00">>,
                                  <<"fiscalDriveNumber", req.fn>>,
                                  <<"fiscalDocumentNumber", req.fd>>,
                                  <<"fiscalSign", req.fp>>,
                                  <<"totalSum", 100000>> >> >> >> >> >>

\* what the transport gives to a call for request req
KeyOutcomes(req) ==
    {[fail |-> TRUE, result |-> <<>>], [fail |-> FALSE, result |-> CodeBody(0)],
     [fail |-> FALSE, result |-> IF req.type = "RequestParams" THEN EchoBody(req) ELSE OkA]}

AllKeyOutcomes == UNION {KeyOutcomes(r) : r \in KeyRequests}

\* verify_receipt calls whose keys are compared, answered by a service that
\* answers about the receipt asked for
NextKeys ==
    \/ \E r \in KeyRequests : VerifyStart(r, "none", NoPromo, <<>>)
    \/ \E o \in AllKeyOutcomes : o \in KeyOutcomes(request_data) /\ Attempt(o)
    \/ Exhaust
    \/ ClearCache

SpecKeys == Init /\ [][NextKeys]_vars

\* the texts the users send to the bot: a QR string of the receipt
\* (11, 22, 33) and a text that is none, and for each step of the
\* conversation a text that passes its check and texts that do not
QrTexts == {QrPayload("20250101T1212", "100", "11", "22", "33", "1"), "hello"}
FnTexts == {"11", "x1"}
FdTexts == {"22", "2a"}
FpTexts == {"33", "3.3"}
TTexts == {"20250101T1212", "2025_101T1212", "2025-01-01 12:12"}
NTexts == {"1", "5"}
STexts == {"100", "abc"}

\* the callback_data a reverify button can carry for these texts
ButtonData ==
    {"reverify_qr_" \o qr_hash(q) : q \in QrTexts}
    \cup {"reverify_manual_11_22_33_" \o t \o "_1_" \o s : t \in TTexts, s \in STexts}

\* what the service gives to the bot's calls: a terminal code, the receipt
\* (11, 22, 33), a receipt whose date from_api_response cannot parse
BotOutcomes ==
    {[fail |-> FALSE, result |-> CodeBody(0)],
     [fail |-> FALSE, result |-> EchoBody(ParamsA)],
     [fail |-> FALSE, result |-> OkBadDate]}

\* the updates the application dispatches and the steps of the
\* verify_receipt calls of its handlers; these answers end the loop at its
\* first pass, by a return or a raise
NextBot ==
    \/ \E u \in Users : manual_entry_start(u)
    \/ \E u \in Users, text \in FnTexts : ask_fn(u, text)
    \/ \E u \in Users, text \in FdTexts : ask_fd(u, text)
    \/ \E u \in Users, text \in FpTexts : ask_fp(u, text)
    \/ \E u \in Users, text \in TTexts : ask_t(u, text)
    \/ \E u \in Users, text \in NTexts : ask_n(u, text)
    \/ \E u \in Users, text \in STexts : ask_s(u, text)
    \/ \E u \in Users : cancel(u)
    \/ \E u \in Users, text \in QrTexts : handle_qr_string(u, text)
    \/ \E u \in Users, data \in ButtonData : handle_reverify(u, data)
    \/ \E u \in Users : verify(u)
    \/ \E o \in BotOutcomes : Attempt(o)
    \/ \E u \in Users : handler_end(u)
    \/ NewDay

InitBot == Constructed /\ traced = FALSE /\ max_retries = bot_max_retries

SpecBot == InitBot /\ [][NextBot]_vars

\* a call in progress keeps running: verify_receipt blocks its thread until
\* it returns
SpecLive == Spec /\ WF_vars(\E o \in Outcomes : Attempt(o)) /\ WF_vars(Exhaust)

-----------------------------------------------------------------------------
(* Properties.                                                             *)

\* a verify_receipt call has ended
CallEnded == pc = "idle" /\ lastOp = "verify"

\* the step is the start of a verify_receipt call
VerifyStarts == pc = "idle" /\ lastOp' = "verify"

\* the call returned a Receipt with is_valid true
ReturnedValid == CallEnded /\ ret.kind = "return" /\ ret.value.is_valid

\* the step is a direct put call
PutStep == lastOp' = "put" /\ Len(puts') = Len(puts) + 1

CacheKeySeq(C) == [i \in 1..Len(C.cache) |-> C.cache[i][1]]

\* C1: a verify_receipt call whose request has a fingerprint under which the
\* cache holds an entry returns that stored Receipt and makes no network
\* call: the call ends in its first step with netCalls = 0.
C1_CacheHitNoNetwork ==
    [][(VerifyStarts /\ cache_key' # None /\ DictHas(rcache.cache, cache_key'))
        => /\ pc' = "idle"
           /\ netCalls' = 0
           /\ sent' = <<>>
           /\ ret'.kind = "return"
           /\ ret'.value = DictGet(rcache.cache, cache_key', ReceiptDefaults)]_vars

\* a call answered from the cache while another entry is stored too
C1_Witness ==
    /\ CallEnded /\ ret.cached /\ netCalls = 0
    /\ Len(rcache.cache) = 2
    /\ ret.value = DictGet(rcache.cache, cache_key, ReceiptDefaults)
    /\ rcache.cache[1][2] # rcache.cache[2][2]

\* C2: a call with a fingerprint that received code 1 has stored the
\* returned Receipt under the fingerprint when it returns, and a call with
\* the same fingerprint that starts next returns it without a network call:
\* one transport call over the two when the first attempt succeeded.
C2_StoredThenHit ==
    [][(ReturnedValid /\ ~ret.cached /\ cache_key # None)
        => /\ DictHas(rcache.cache, cache_key)
           /\ DictGet(rcache.cache, cache_key, ReceiptDefaults) = ret.value
           /\ (VerifyStarts /\ cache_key' = cache_key)
                => /\ pc' = "idle"
                   /\ ret'.kind = "return" /\ ret'.value = ret.value
                   /\ netCalls' = 0
                   /\ (attempt = 0 => netCalls + netCalls' = 1)]_vars

\* since the last clear: one miss, whose call stored the Receipt, then one hit
C2_Witness ==
    /\ CallEnded /\ ret.cached /\ netCalls = 0
    /\ rcache.hits = 1 /\ rcache.misses = 1 /\ Len(rcache.cache) = 1

\* a Manual request: a RequestParams object, or the dict of the seven fields
IsManual(req) == req.type = "RequestParams" \/ DictHas(req.d, "fn")

\* C3: every Manual request, RequestParams object or from_manual_params
\* dict, gets a cache key in verify_receipt, and on code 1 its Receipt is in
\* the cache under that key when the call returns.
C3_ManualHasFingerprint ==
    (CallEnded /\ IsManual(request_data))
        => /\ cache_key # None
           /\ ReturnedValid => DictHas(rcache.cache, cache_key)

IsRawQr(req) == req.type = "dict" /\ DictHas(req.d, "qrraw")

\* the field tuples <<t, s, fn, i, fp, n>> of the QR payloads explored
QrFieldTuples == {<<"T1", "10", "11", "22", "33", "1">>, <<"T2", "10", "55", "22", "33", "1">>}

\* the requests a call's key is compared with
Compared == {c[1] : c \in Calls} \cup {QrC}

\* the (fn, fd, fp, t) a request carries, <<>> when it carries none
FourFields(req) ==
    IF req.type = "RequestParams" THEN <<req.fn, req.fd, req.fp, req.t>>
    ELSE IF DictHas(req.d, "fn")
    THEN <<DictGet(req.d, "fn", ""), DictGet(req.d, "fd", ""),
           DictGet(req.d, "fp", ""), DictGet(req.d, "t", "")>>
    ELSE IF IsRawQr(req)
            /\ \E q \in QrFieldTuples :
                 QrPayload(q[1], q[2], q[3], q[4], q[5], q[6]) = DictGet(req.d, "qrraw", "")
    THEN LET q == CHOOSE q \in QrFieldTuples :
                 QrPayload(q[1], q[2], q[3], q[4], q[5], q[6]) = DictGet(req.d, "qrraw", "")
         IN  <<q[3], q[4], q[5], q[1]>>
    ELSE <<>>

C5_CacheHoldsOnlyValid ==
    \A i \in 1..Len(rcache.cache) :
        rcache.cache[i][2].is_valid /\ rcache.cache[i][2].code = 1

\* a call with a fingerprint returned an invalid Receipt while the cache is full
C5_Witness ==
    /\ CallEnded /\ ret.kind = "return" /\ ~ret.value.is_valid
    /\ cache_key # None /\ Len(rcache.cache) = max_size

PutKeys == [i \in 1..Len(puts) |-> puts[i].key]

DistinctValidPuts ==
    /\ \A i, j \in 1..Len(puts) : puts[i].key = puts[j].key => i = j
    /\ \A i \in 1..Len(puts) : puts[i].is_valid

\* the last n elements of q
LastN(q, n) == IF Len(q) <= n THEN q ELSE SubSeq(q, Len(q) - n + 1, Len(q))

C8_EvictionSparesLastRead ==
    [][(PutStep /\ lastGet # None /\ Len(rcache.cache) >= max_size
        /\ (\A i \in 1..Len(puts') : puts'[i].is_valid)
        /\ ~DictHas(rcache.cache, puts'[Len(puts')].key))
        => DictHas(rcache'.cache, lastGet)]_vars

\* C9: the cache never holds more than max_size entries.
C9_CapacityBound == Len(rcache.cache) <= max_size

\* a full cache after more puts than its capacity
C9_Witness == Len(rcache.cache) = max_size /\ Len(puts) > max_size /\ lastOp = "put"

\* C10: a verify_receipt call makes at most max_retries network calls and at
\* most max_retries - 1 sleeps (none when max_retries is 0), and ends.
C10_BoundedRetries ==
    /\ [](/\ netCalls <= max_retries
          /\ Len(sleeps) <= (IF max_retries = 0 THEN 0 ELSE max_retries - 1)
          /\ attempt <= max_retries)
    /\ ((pc = "loop") ~> (pc = "idle"))

\* a call that used every attempt and slept between them
C10_Witness ==
    /\ CallEnded /\ max_retries = MaxRetries
    /\ netCalls = max_retries /\ Len(sleeps) = max_retries - 1

-----------------------------------------------------------------------------
(* Retry loop, under SpecRetry: recv is what the transport gave.           *)

\* the code of a decoded outcome
CodeOf(o) == ResponseCode(o.result)

\* the outcome is a decoded body with code 2, 3 or 4
IsRetryable(o) == ~o.fail /\ CodeOf(o) \in {2, 3, 4}

LastRecv == recv[Len(recv)]

\* the service answered retryable codes only, then code 1
RetryablesThenSuccess ==
    /\ CallEnded /\ recv # <<>>
    /\ \A i \in 1..(Len(recv) - 1) : IsRetryable(recv[i])
    /\ ~LastRecv.fail /\ CodeOf(LastRecv) = 1

\* one network call per answer, and sleep i (from 0) is get_delay(code_i, i),
\* slept after call i and before call i + 1
SleepsFollowAnswers ==
    /\ netCalls = Len(recv)
    /\ sleeps = [i \in 1..(Len(recv) - 1) |-> get_delay(CodeOf(recv[i]), i - 1)]

\* C11: when the service answers k < max_retries retryable codes and then
\* code 1, the call returns a valid Receipt after exactly k + 1 network
\* calls, having slept get_delay(code_i, i) after call i; for 3, 3, 1 with
\* max_retries = 3 the delays are 1 then 2.
C11_RetryOrdering ==
    /\ (pc = "loop" /\ attempt < max_retries) => Len(sleeps) = netCalls
    /\ RetryablesThenSuccess
          => /\ Len(recv) - 1 < max_retries
             /\ SleepsFollowAnswers
             /\ ret.kind = "return" /\ ret.value.is_valid
             /\ (max_retries = 3 /\ Len(recv) = 3 /\ CodeOf(recv[1]) = 3 /\ CodeOf(recv[2]) = 3)
                   => sleeps = << <<1, 1>>, <<2, 1>> >>

\* the part of C11 about calls and sleeps alone
C11_CallsAndSleeps == RetryablesThenSuccess => SleepsFollowAnswers

\* the step is a network call of verify_receipt that the transport answered
ReceivedStep == Len(recv') = Len(recv) + 1

\* a decoded body whose code is neither 1 nor retryable
IsTerminal(o) == ~o.fail /\ CodeOf(o) \notin {1, 2, 3, 4}

\* C13: an attempt that receives a decoded response whose code is not 1, 2,
\* 3 or 4 ends the call at once: the invalid Receipt of that response is
\* returned, with no sleep and no further network call, whatever number of
\* attempts remains.
C13_TerminalNeverRetried ==
    [][(ReceivedStep /\ IsTerminal(recv'[Len(recv')]))
        => /\ pc' = "idle"
           /\ ret'.kind = "return"
           /\ ~ret'.value.is_valid
           /\ ret'.value.code = CodeOf(recv'[Len(recv')])
           /\ ret'.value = from_api_response(recv'[Len(recv')].result).value
           /\ sleeps' = sleeps
           /\ netCalls' = netCalls + 1]_vars

\* code 5 on the second of three attempts ended the call after one sleep
C13_Witness ==
    /\ CallEnded /\ max_retries = 3 /\ Len(recv) = 2 /\ netCalls = 2
    /\ ~LastRecv.fail /\ CodeOf(LastRecv) = 5
    /\ Len(sleeps) = 1
    /\ ret.kind = "return" /\ ~ret.value.is_valid

\* s starts with prefix
StartsWith(s, prefix) == Len(s) >= Len(prefix) /\ SubSeq(s, 1, Len(prefix)) = prefix

\* C14: an attempt a that fails at the network level sleeps base * 2^a and
\* is followed by another attempt when a < max_retries - 1; on the last
\* attempt it ends the call with an invalid Receipt of code -1 whose
\* message starts with 'Network error'.  Failures and retryable codes
\* advance the same counter: inside the loop attempt is the number of
\* answers so far, of either kind.
C14_TransportFailures ==
    /\ [](pc = "loop" => attempt = Len(recv))
    /\ [][(ReceivedStep /\ recv'[Len(recv')].fail)
            => IF attempt < max_retries - 1
               THEN /\ sleeps' = Append(sleeps, <<base_delay * Pow(2, attempt), 1>>)
                    /\ pc' = "loop"
                    /\ attempt' = attempt + 1 /\ attempt' < max_retries
               ELSE /\ pc' = "idle"
                    /\ sleeps' = sleeps
                    /\ ret'.kind = "return"
                    /\ ~ret'.value.is_valid
                    /\ ret'.value.code = -1
                    /\ StartsWith(ret'.value.error_message, "Network error")]_vars

\* a retryable code, then two transport failures: the first slept 2, the
\* second, on the last attempt, ended the call
C14_Witness ==
    /\ CallEnded /\ max_retries = 3 /\ Len(recv) = 3
    /\ IsRetryable(recv[1]) /\ recv[2].fail /\ recv[3].fail
    /\ Len(sleeps) = 2 /\ sleeps[2] = <<2, 1>>
    /\ ret.kind = "return" /\ ret.value.code = -1

\* the call made max_retries attempts and each received a retryable code
AllAttemptsRetryable ==
    /\ CallEnded /\ ~ret.cached
    /\ Len(recv) = max_retries
    /\ \A i \in 1..Len(recv) : IsRetryable(recv[i])

\* C15: when each of the max_retries attempts received code 2, 3 or 4, the
\* call returns the retry-exhaustion Receipt: code -1 with the message
\* 'Max retries exceeded'.
C15_RetryExhaustion ==
    AllAttemptsRetryable
        => /\ ret.kind = "return"
           /\ ret.value.code = -1
           /\ ret.value.error_message = "Max retries exceeded"

\* C16: when a call that was given an attachment ends, on any exit path,
\* the handle is closed and close was invoked on it exactly once.
C16_AttachmentReleasedOnce ==
    (CallEnded /\ files # "none") => (files = "closed" /\ closes = 1)

\* the next step of the call is a requests.post
AttemptPending == pc = "loop" /\ attempt < max_retries

\* C17: every network attempt of a call is made with the same parameters,
\* and the attachment handle is open when the attempt is made.
C17_SameRequestOpenHandle ==
    /\ \A i, j \in 1..Len(sent) : sent[i] = sent[j]
    /\ AttemptPending => (request_dict = Augment(RequestDictOf(request_data), promo_id, userdata))
    /\ AttemptPending => files # "closed"

\* C20: a verify_receipt call never ends by an exception: whatever the
\* transport outcomes and the decoded bodies are, it returns a Receipt.
C20_AlwaysReturnsReceipt == CallEnded => ret.kind = "return"

-----------------------------------------------------------------------------
(* RetryHandler, under SpecPure: probe is the last direct call.            *)

\* equality and product of fractions
FracEq(x, y) == x[1] * y[2] = y[1] * x[2]
FracMul(x, y) == <<x[1] * y[1], x[2] * y[2]>>

\* the step is a direct call of should_retry or get_delay
RetryHandlerStep == probe' # probe /\ probe'.op \in {"should_retry", "get_delay"}

-----------------------------------------------------------------------------
(* Receipt.from_api_response, under SpecPure.                              *)

\* the last direct call was from_api_response
Parsed == probe.op = "from_api_response"

\* the dateTime of the response's payload, "" when there is none
DateTimeOf(response) ==
    DictGet(DictGet(DictGet(response, "data", <<>>), "json", <<>>), "dateTime", "")

\* is_valid and error_message of a Receipt agree with its code
CodeMatchesValidity(r, response) ==
    /\ r.code = 1 => (r.is_valid /\ r.error_message = None)
    /\ r.code # 1 => (~r.is_valid /\ r.error_message # None)
    /\ r.code \in {0, 2, 3, 4, 5} => r.error_message = DictGet(error_messages, r.code, None)
    /\ r.code \notin {0, 1, 2, 3, 4, 5}
          => r.error_message = DictGet(response, "error", "Unknown error")

\* C18: for every decoded response from_api_response yields a Receipt, with
\* is_valid true and no error_message when the code is 1, with is_valid
\* false and an error_message (canned for 0, 2, 3, 4, 5, else the service's
\* text or the fallback) for any other or missing code.
C18_ValidityCorrespondence ==
    Parsed => /\ probe.out.kind = "return"
              /\ probe.out.value.code = probe.code
              /\ CodeMatchesValidity(probe.out.value, probe.response)

\* the part of C18 about the Receipts that are returned
C18_OfReturnedReceipts ==
    (Parsed /\ probe.out.kind = "return")
        => (probe.out.value.code = probe.code
            /\ CodeMatchesValidity(probe.out.value, probe.response))

\* C19: for a code 1 response whose dateTime is missing, empty or not in
\* the format, from_api_response returns a valid Receipt without timestamp
\* and with the other fields parsed.
C19_TimestampFailureTolerated ==
    (Parsed /\ probe.code = 1 /\ ~DateParses(DateTimeOf(probe.response)))
        => /\ probe.out.kind = "return"
           /\ probe.out.value.is_valid
           /\ probe.out.value.date_time = None
           /\ probe.out.value.total_sum
                = Div100(DictGet(DictGet(DictGet(probe.response, "data", <<>>), "json", <<>>),
                                 "totalSum", 0))
           /\ probe.out.value.raw_response = probe.response

\* the payload of a response
JsonOf(response) == DictGet(DictGet(response, "data", <<>>), "json", <<>>)

\* amount is the major-unit value of the minor-unit integer cents
IsHundredthOf(amount, cents) ==
    amount[2] \in 0..99 /\ amount[1] * 100 + amount[2] = cents

\* C22: for code 1, every item price and sum, each total and each VAT
\* bucket of the Receipt is the minor-unit input divided by 100 exactly
\* (10050 gives 100.50, 20100 gives 201.00, 100000 gives 1000.00), the
\* quantity is copied unscaled, and the items keep their order and count.
C22_UnitConversion ==
    (Parsed /\ probe.code = 1 /\ probe.out.kind = "return")
        => LET data == JsonOf(probe.response)
               inItems == DictGet(data, "items", <<>>)
               r == probe.out.value
           IN  /\ Len(r.items) = Len(inItems)
               /\ \A i \in 1..Len(inItems) :
                     /\ r.items[i].name = DictGet(inItems[i], "name", "")
                     /\ IsHundredthOf(r.items[i].price, DictGet(inItems[i], "price", 0))
                     /\ IsHundredthOf(r.items[i].sum, DictGet(inItems[i], "sum", 0))
                     /\ r.items[i].quantity = DictGet(inItems[i], "quantity", 0)
                     /\ DictGet(inItems[i], "price", 0) = 10050 => r.items[i].price = <<100, 50>>
                     /\ DictGet(inItems[i], "sum", 0) = 20100 => r.items[i].sum = <<201, 0>>
               /\ IsHundredthOf(r.total_sum, DictGet(data, "totalSum", 0))
               /\ IsHundredthOf(r.cash_sum, DictGet(data, "cashTotalSum", 0))
               /\ IsHundredthOf(r.card_sum, DictGet(data, "ecashTotalSum", 0))
               /\ IsHundredthOf(r.vat_20, DictGet(data, "nds18", 0))
               /\ IsHundredthOf(r.vat_10, DictGet(data, "nds", 0))
               /\ IsHundredthOf(r.vat_0, DictGet(data, "nds0", 0))
               /\ IsHundredthOf(r.vat_none, DictGet(data, "ndsNo", 0))
               /\ DictGet(data, "totalSum", 0) = 100000 => r.total_sum = <<1000, 0>>

\* the Receipt of a payload with two items: 49.99 x 3 after 100.50 x 2
C22_Witness ==
    /\ Parsed /\ probe.out.kind = "return" /\ probe.response = OkFull
    /\ Len(probe.out.value.items) = 2
    /\ probe.out.value.items[1].price = <<100, 50>>
    /\ probe.out.value.items[2].price = <<49, 99>>
    /\ probe.out.value.items[2].quantity = 3
    /\ probe.out.value.vat_0 = <<0, 1>>

-----------------------------------------------------------------------------
(* The Receipt entity.                                                     *)

\* the business fields of a Receipt are all empty or zero
NoBusinessFields(r) ==
    /\ r.items = <<>>
    /\ r.total_sum = Zero /\ r.cash_sum = Zero /\ r.card_sum = Zero
    /\ r.vat_20 = Zero /\ r.vat_10 = Zero /\ r.vat_0 = Zero /\ r.vat_none = Zero
    /\ r.organization = "" /\ r.address = "" /\ r.inn = ""
    /\ r.date = "" /\ r.time = "" /\ r.place = "" /\ r.cashier = ""
    /\ r.receipt_number = "" /\ r.shift_number = ""
    /\ r.fiscal_drive_number = "" /\ r.fiscal_document_number = ""
    /\ r.fiscal_sign = "" /\ r.operation_type = 0

\* the Receipts at hand: the one the last from_api_response call produced
\* and the one the last verify_receipt call returned
ReceiptsProduced ==
    (IF Parsed /\ probe.out.kind = "return" THEN {probe.out.value} ELSE {})
    \cup (IF CallEnded /\ ret.kind = "return" THEN {ret.value} ELSE {})

\* an invalid Receipt has no business fields and an error_message that is set
InvalidReceiptShape(r) ==
    ~r.is_valid => (r.error_message # None /\ NoBusinessFields(r))

\* C21: every Receipt produced by from_api_response or returned by
\* verify_receipt has, when is_valid is false, a non-empty error_message
\* and no business fields, and when is_valid is true no error_message.
C21_ReceiptInvariant ==
    \A r \in ReceiptsProduced :
        /\ InvalidReceiptShape(r)
        /\ ~r.is_valid => r.error_message # ""
        /\ r.is_valid => r.error_message = None

\* the part of C21 that does not depend on the service's error text
C21_ApartFromEmptyText ==
    \A r \in ReceiptsProduced :
        /\ InvalidReceiptShape(r)
        /\ r.is_valid => r.error_message = None

-----------------------------------------------------------------------------
(* Concurrent callers, under SpecThreads.                                  *)

\* no thread is inside verify_receipt
AllFinished == \A t \in Threads : threads[t].pc = "idle"

\* C23: with verify_receipt calls of several threads interleaved at the
\* steps of get and put, the cache never holds more than max_size entries.
C23_CapacityUnderThreads == Len(rcache.cache) <= max_size

\* C24: no counter update is lost: once every call has finished, hits +
\* misses is the number of cache lookups made since the last clear.
C24_NoLostCount == AllFinished => rcache.hits + rcache.misses = lookups

-----------------------------------------------------------------------------
(* ReceiptCache.get and ReceiptCache.stats, called one after the other.    *)

\* a step that is a call of get: the key asked for is cache_key'
GetStep == lastOp' = "get" /\ vars' # vars

GetReturnsAndCounts ==
    LET key == cache_key'
    IN  /\ ret'.kind = "return"
        /\ ret'.cached = DictHas(rcache.cache, key)
        /\ DictHas(rcache.cache, key) =>
              /\ ret'.value = DictGet(rcache.cache, key, ReceiptDefaults)
              /\ rcache'.hits = rcache.hits + 1
              /\ rcache'.misses = rcache.misses
        /\ ~DictHas(rcache.cache, key) =>
              /\ rcache'.misses = rcache.misses + 1
              /\ rcache'.hits = rcache.hits
        /\ rcache'.cache = rcache.cache

StatsAgree ==
    LET st == ReceiptCache_stats(rcache)
    IN  /\ st.hits + st.misses = lookups
        /\ st.size = Cardinality(DictKeys(rcache.cache))
        /\ lookups = 0 => st.hit_rate = <<0, 1>>

\* C25: get(key) returns the stored Receipt when the key is present and
\* absence otherwise, adds one to exactly one counter (hits on presence,
\* misses on absence) and leaves the map and its order as they were; so
\* stats() reports hits + misses equal to the number of get calls since the
\* last clear, size equal to the number of entries, and a hit rate of 0
\* when no lookup has happened.
C25_GetFrameAndStats == [][GetStep => GetReturnsAndCounts]_vars /\ []StatsAgree

\* a hit on the oldest of two entries after a miss
C25_Witness ==
    /\ lastOp = "get"
    /\ ret.cached
    /\ Len(rcache.cache) = 2
    /\ rcache.cache[1][1] = cache_key
    /\ rcache.hits > 0
    /\ rcache.misses > 0

-----------------------------------------------------------------------------
(* ReceiptCache.clear and ReceiptVerifier.clear_cache.                     *)

\* a step that is a call of clear_cache
ClearStep == pc = "idle" /\ lastOp' = "clear" /\ vars' # vars

\* the call that ended is the first lookup since the last clear, for a
\* fingerprint the cache held when it was cleared
FirstCallAfterClear == CallEnded /\ lookups = 1 /\ cache_key \in wasCached

\* C26: clear() leaves the map empty and hits and misses at 0 in one step,
\* from any reachable state; a verify_receipt for a fingerprint that was
\* cached, issued after the clear, performs a network call again.
C26_ClearResetsAll ==
    /\ [][ClearStep => rcache' = NewCache]_vars
    /\ [](FirstCallAfterClear => ~ret.cached /\ netCalls >= 1)

\* the fingerprint was verified over the network again and stored again
C26_Witness ==
    /\ FirstCallAfterClear
    /\ netCalls >= 1
    /\ DictHas(rcache.cache, cache_key)

-----------------------------------------------------------------------------
(* How entries leave the cache.                                            *)

\* the keys other than that of put number i that were put after it
KeysPutAfter(i) == {puts[j].key : j \in (i + 1)..Len(puts)} \ {puts[i].key}

\* C27: entries leave the cache only through capacity pressure or clear:
\* since the last clear, a key stays in the cache as long as fewer than
\* max_size other keys were put after it.
C27_LeavesOnlyByCapacityOrClear ==
    \A i \in 1..Len(puts) :
        Cardinality(KeysPutAfter(i)) < max_size => DictHas(rcache.cache, puts[i].key)

-----------------------------------------------------------------------------
(* Requests without a fingerprint.                                         *)

\* the QrUrl and the QrFile request
KeylessRequests == {UrlA, from_qr_file_data}

\* a QrUrl or QrFile call enters the loop without a lookup, and no step of
\* it touches the map or the counters
KeylessCallSparesCache ==
    /\ [][(VerifyStarts /\ request_data' \in KeylessRequests)
            => cache_key' = None /\ rcache' = rcache /\ pc' = "loop"]_vars
    /\ [][(lastOp = "verify" /\ pc = "loop" /\ request_data \in KeylessRequests)
            => rcache' = rcache]_vars

KeylessCallEnded == CallEnded /\ request_data \in KeylessRequests

\* C28 as stated: a QrUrl or QrFile call makes no lookup and no insertion,
\* leaves map, hits and misses unchanged whatever the response, and always
\* goes to the network.
C28_BypassAlwaysNetwork ==
    /\ KeylessCallSparesCache
    /\ [](KeylessCallEnded => ~ret.cached /\ netCalls >= 1)

\* C28, amended: a QrUrl or QrFile call makes no lookup and no insertion and
\* leaves map, hits and misses unchanged whatever the response; it is never
\* answered from the cache, and it goes to the network exactly when the
\* verifier has max_retries >= 1.
C28_BypassNetworkIfAttempts ==
    /\ KeylessCallSparesCache
    /\ [](KeylessCallEnded => ~ret.cached /\ (netCalls >= 1 <=> max_retries >= 1))

\* a QrUrl call answered code 1 with a valid Receipt, by a verifier whose
\* cache holds an entry and has counted a hit: nothing was stored for it
C28_Witness ==
    /\ KeylessCallEnded
    /\ request_data = UrlA
    /\ ret.value.is_valid
    /\ netCalls >= 1
    /\ Len(rcache.cache) = 1
    /\ rcache.hits > 0

-----------------------------------------------------------------------------
(* What verify_receipt posts.                                              *)

\* d holds the pairs of the request in their places, the token, the
\* promo_id as text and one userdata_<key> per pair of userdata
CarriesAll(d, req, promo, ud) ==
    /\ Len(d) >= Len(RequestDictOf(req))
    /\ \A j \in 1..Len(RequestDictOf(req)) : d[j] = RequestDictOf(req)[j]
    /\ DictGet(d, "token", None) = token
    /\ promo.given => DictGet(d, "promo_id", None) = Str(promo.value)
    /\ \A j \in 1..Len(ud) : DictGet(d, "userdata_" \o ud[j][1], None) = ud[j][2]

\* C29: every network call of verify_receipt carries the request fields
\* unchanged, the token, promo_id whenever the caller supplied one (for
\* every integer value), and userdata_<key> = value for each userdata pair.
C29_PostedFields ==
    \A i \in 1..Len(sent) : CarriesAll(sent[i], request_data, promo_id, userdata)

\* the same for every call but those with promo_id = 0
C29_ApartFromZeroPromo ==
    (promo_id.given => promo_id.value # 0) => C29_PostedFields

-----------------------------------------------------------------------------
(* Receipt.to_csv.                                                         *)

\* the directory can be made (or is there) and the file can be written
CsvCanSucceed(c) == c.before.at \in {"absent", "dir"} /\ c.before.writable

ToCsvContract(c) ==
    /\ c.out.kind = "return"
    /\ ~c.self.is_valid => c.out.value = None /\ c.after = c.before
    /\ (c.self.is_valid /\ CsvCanSucceed(c)) =>
          /\ c.after.at = "dir"
          /\ c.out.value # None
          /\ c.after.written = {c.out.value}
    /\ (c.self.is_valid /\ ~CsvCanSucceed(c)) => c.out.value = None

\* C30: to_csv never raises: for an invalid receipt it returns no file and
\* touches nothing; for a valid receipt it creates the directory if absent
\* and returns the written path; when the directory cannot be created or
\* the file cannot be written it returns None instead of raising.
C30_ToCsvNeverRaises == probe.op = "to_csv" => ToCsvContract(probe.csv)

\* the same when receipts_dir is absent or a directory
C30_ApartFromMkdir ==
    (probe.op = "to_csv" /\ probe.csv.before.at \in {"absent", "dir"})
        => ToCsvContract(probe.csv)

-----------------------------------------------------------------------------
(* A put of a key the cache holds.                                         *)

\* the key of the put call that the step makes
PutKey == puts'[Len(puts')].key

\* C31: put(k, r) for a key k that is already stored replaces the value of
\* k and removes no other entry, even at capacity: the set of stored keys
\* is the same before and after the call.
C31_RePutKeepsKeys ==
    [][(PutStep /\ DictHas(rcache.cache, PutKey))
        => DictKeys(rcache'.cache) = DictKeys(rcache.cache)]_vars

\* the same below capacity
C31_BelowCapacity ==
    [][(PutStep /\ DictHas(rcache.cache, PutKey) /\ Len(rcache.cache) < max_size)
        => DictKeys(rcache'.cache) = DictKeys(rcache.cache)]_vars

-----------------------------------------------------------------------------
(* Concurrent puts into a full cache.                                      *)

\* thread t is out of a call in which it formed a valid Receipt
FormedValid(t) == threads[t].pc = "idle" /\ threads[t].receipt.is_valid

\* C32: under concurrent verify_receipt calls that receive code 1 while the
\* cache is at capacity, no call fails because of the other's eviction:
\* each call that formed a valid Receipt returns it, and no exception of
\* put (deleting a key already deleted) escapes.
C32_NoCallFailsByEviction ==
    \A t \in Threads : FormedValid(t) => threads[t].out \in {"valid", "cached"}

-----------------------------------------------------------------------------
(* Cache keys of different receipts.                                       *)

\* what a request with a cache key asks about: its (fn, fd, fp, t), or its
\* raw payload
AskedAbout(req) ==
    IF req.type = "RequestParams" THEN <<"fields", req.fn, req.fd, req.fp, req.t>>
    ELSE <<"payload", DictGet(req.d, "qrraw", "")>>

\* the fiscal fields of the Receipt returned are those of the request
AnswersRequest ==
    <<ret.value.fiscal_drive_number, ret.value.fiscal_document_number,
      ret.value.fiscal_sign>> = <<request_data.fn, request_data.fd, request_data.fp>>

\* C33: cache keys do not collide across different receipts: requests that
\* differ in (fn, fd, fp, t), or a RequestParams request and a raw payload,
\* never get the same key, so verify_receipt never returns from the cache a
\* Receipt that was stored for a different receipt.
C33_NoKeyCollision ==
    /\ CallEnded =>
          \A r \in KeyRequests :
              AskedAbout(r) # AskedAbout(request_data) => CacheKeyOf(r) # cache_key
    /\ (CallEnded /\ ret.cached /\ request_data.type = "RequestParams") => AnswersRequest

\* the same for fields without the separator and payloads in the QR format
C33_ApartFromSeparator ==
    (CallEnded /\ request_data \in {ParamsA, ParamsB, QrA}) =>
        \A r \in {ParamsA, ParamsB, QrA} :
            AskedAbout(r) # AskedAbout(request_data) => CacheKeyOf(r) # cache_key

-----------------------------------------------------------------------------
(* The caller's request.                                                   *)

\* the requests passed to verify_receipt
RequestsPassed == {c[1] : c \in Calls \cup RetryCalls}

\* C34: verify_receipt does not modify its caller's request: at every point
\* of the call and for every outcome a dict passed as request_data has the
\* keys and values it was passed with (no token, promo_id or userdata_
\* field added) and a RequestParams object is unchanged.
C34_CallerRequestUntouched ==
    /\ [][VerifyStarts => request_data' \in RequestsPassed]_vars
    /\ [][(lastOp = "verify" /\ pc = "loop") => request_data' = request_data]_vars

\* a qrurl dict posted with token, promo_id and userdata_shop
C34_Witness ==
    /\ CallEnded /\ request_data = UrlA /\ netCalls >= 1
    /\ DictHas(sent[1], "token")
    /\ DictHas(sent[1], "promo_id")
    /\ DictHas(sent[1], "userdata_shop")

-----------------------------------------------------------------------------
(* The cache across a call that does not succeed.                          *)

\* a miss: the call enters the loop with the map as it was, and one more
\* miss exactly when the request has a fingerprint
MissCountsOnce ==
    /\ rcache'.cache = rcache.cache
    /\ rcache'.hits = rcache.hits
    /\ rcache'.misses = rcache.misses + (IF cache_key' # None THEN 1 ELSE 0)

\* the step ends the call with the valid Receipt of a code 1 response
ReturnsCodeOne ==
    pc' = "idle" /\ ret'.kind = "return" /\ ret'.value.code = 1 /\ ret'.value.is_valid

\* C35: a verify_receipt call that does not end with a code 1 response
\* (terminal code, retryable code on the last attempt, transport failure,
\* exhaustion) leaves the cached entries and their order unchanged; only
\* the miss counter changes, by one, when the request has a fingerprint.
C35_FailedCallSparesCache ==
    /\ [][(VerifyStarts /\ pc' = "loop") => MissCountsOnce]_vars
    /\ [][(lastOp = "verify" /\ pc = "loop" /\ ~ReturnsCodeOne) => rcache' = rcache]_vars

\* a call with a fingerprint ended without success after a retry, the cache
\* being full
C35_Witness ==
    /\ CallEnded /\ cache_key # None /\ netCalls >= 2
    /\ ret.kind = "return" /\ ~ret.value.is_valid
    /\ Len(rcache.cache) = max_size
    /\ rcache.misses > Len(rcache.cache)

-----------------------------------------------------------------------------
(* The daily quota.                                                        *)

\* C36: the count APIRateLimiter stores never exceeds limit, whatever the
\* order in which the application runs handle_qr_string, ask_s and
\* handle_reverify, each of which calls can_make_request, awaits
\* verify_receipt and then calls increment.  The application takes one
\* update at a time, so no check falls between another handler's check and
\* its increment.
C36_QuotaNeverExceeded == bot.data.count <= limit

\* the quota of a later day is used up, every handler having ended
C36_Witness ==
    /\ bot.day > 0
    /\ bot.data = [date |-> bot.day, count |-> limit]
    /\ \A u \in Users : bot.tasks[u] = NoTask

\* a step in which APIRateLimiter.increment runs
Incremented ==
    /\ bot'.data # bot.data
    /\ bot'.data.count = read_and_reset(bot.data, bot.day).count + 1

\* C37: the bot increments the daily counter only for a verify_receipt call
\* that made at least one network call and received code 1; a verification
\* answered from the ReceiptCache with no network call consumes no quota.
C37_IncrementOnlyForNetworkSuccess ==
    [][Incremented => netCalls >= 1 /\ ret.kind = "return" /\ ret.value.code = 1]_vars

\* what holds instead: every increment follows a call that returned a valid
\* Receipt, from the network or from the cache
C37_IncrementOnlyForValid ==
    [][Incremented => ret.kind = "return" /\ ret.value.is_valid]_vars

-----------------------------------------------------------------------------
(* Who the bot verifies for, and what it sends.                            *)

\* a step in which a handler of user u passes its checks and goes on to its
\* verify_receipt call
Reaches(u) == bot.tasks[u] = NoTask /\ bot'.tasks[u] # NoTask

\* C38: every verify_receipt call of the bot is made for a user who is in
\* the authorized-users list when the update arrives, whichever the entry
\* point: QR string message, step of the manual-entry conversation, reverify
\* button.
C38_VerifiesOnlyForAuthorized ==
    [][\A u \in Users : Reaches(u) => is_authorized(u)]_vars

\* what holds instead: the message handlers verify only for authorized users
C38_MessagesOnlyForAuthorized ==
    [][\A u \in Users :
          Reaches(u) /\ bot'.tasks[u].handler # "handle_reverify" => is_authorized(u)]_vars

\* the field each step of the conversation asks for, and its check
StepKeys == <<"fn", "fd", "fp", "t", "n", "s">>

FieldOk(key, text) ==
    CASE key \in {"fn", "fd", "fp"} -> isdigit(text)
      [] key = "t" -> t_ok(text)
      [] key = "n" -> n_ok(text)
      [] key = "s" -> float_parses(text)

ConvIndex(state) == CHOOSE i \in 1..Len(ConvStates) : ConvStates[i] = state

\* the fields stored for a user are those of the steps passed, each having
\* passed its check; outside a conversation nothing is stored
StoredFieldsChecked ==
    \A u \in Users :
        LET ud == bot.user_data[u]
        IN  IF bot.conv[u] = END THEN ud = <<>>
            ELSE /\ Len(ud) \in {ConvIndex(bot.conv[u]) - 1}
                               \cup (IF bot.tasks[u] # NoTask THEN {Len(StepKeys)} ELSE {})
                 /\ \A i \in 1..Len(ud) :
                       ud[i][1] = StepKeys[i] /\ FieldOk(ud[i][1], ud[i][2])

\* a change of state is the entry of an authorized user, the move to the
\* next step on a text that passed the check of the step and is stored, or
\* the end with the stored fields cleared; a step that keeps the state
\* stores nothing unless it is ask_s going on to verify
ConversationStep ==
    \A u \in Users :
        LET from == bot.conv[u]
            to == bot'.conv[u]
            ud == bot'.user_data[u]
        IN  /\ to # from =>
                 \/ from = END /\ to = ConvStates[1] /\ is_authorized(u)
                                /\ ud = bot.user_data[u]
                 \/ /\ from # END
                    /\ ConvIndex(from) < Len(ConvStates)
                    /\ to = ConvStates[ConvIndex(from) + 1]
                    /\ ud = Append(bot.user_data[u], ud[ConvIndex(from)])
                    /\ ud[ConvIndex(from)][1] = StepKeys[ConvIndex(from)]
                    /\ FieldOk(StepKeys[ConvIndex(from)], ud[ConvIndex(from)][2])
                 \/ from # END /\ to = END /\ ud = <<>>
            /\ to = from /\ ~Reaches(u) => ud = bot.user_data[u]

\* the requests made of six manual fields
IsManualRequest(req) == req.type = "dict" /\ DictHas(req.d, "fn")

FieldsPass(d) == \A i \in 1..Len(StepKeys) : FieldOk(StepKeys[i], DictGet(d, StepKeys[i], ""))

\* every manual verification that reaches verify_receipt carries six fields
\* that pass the checks of the steps
ManualFieldsChecked ==
    \A u \in Users :
        Reaches(u) /\ IsManualRequest(bot'.tasks[u].request)
            => FieldsPass(bot'.tasks[u].request.d)

\* the same, for the verifications ask_s sends
AskSFieldsChecked ==
    \A u \in Users :
        Reaches(u) /\ bot'.tasks[u].handler = "ask_s"
            => FieldsPass(bot'.tasks[u].request.d)

\* C39: the manual-entry conversation advances ASKING_FN -> ASKING_FD ->
\* ASKING_FP -> ASKING_T -> ASKING_N -> ASKING_S only on input that passes
\* the step's check, invalid input keeps the state and stores nothing,
\* cancel clears the stored fields and ends the conversation, and every
\* manual verification sent to verify_receipt, manual reverify included,
\* carries six fields that passed these checks.
C39_ManualEntryChecked ==
    /\ []StoredFieldsChecked
    /\ [][ConversationStep]_vars
    /\ [][ManualFieldsChecked]_vars

\* what holds instead: the conversation part, and the fields ask_s sends
C39_ConversationChecked ==
    /\ []StoredFieldsChecked
    /\ [][ConversationStep]_vars
    /\ [][AskSFieldsChecked]_vars

-----------------------------------------------------------------------------
(* The saved receipts and the calls.                                       *)

\* the fn, fd and fp a request is about
FieldsOf(req) ==
    IF DictHas(req.d, "qrraw") THEN extract_params_from_qr(DictGet(req.d, "qrraw", ""))
    ELSE req.d

\* a CSV of the receipts directory carries these fn, fd and fp in its name
SavedFor(params, csv) ==
    \E path \in csv :
        EndsWith(path, "_" \o DictGet(params, "fn", "") \o "_" \o DictGet(params, "fd", "")
                       \o "_" \o DictGet(params, "fp", "") \o ".csv")

\* a handler reaches verify_receipt for a saved receipt only from a
\* reverify button
SavedOnlyByReverify ==
    \A u \in Users :
        Reaches(u) /\ SavedFor(FieldsOf(bot'.tasks[u].request), bot.csv)
            => /\ bot'.tasks[u].handler = "handle_reverify"
               /\ bot.buttons # {}

\* the handler that offers the buttons for a saved receipt leaves the
\* counter alone and goes on to no call, and so does ask_s when it ends the
\* conversation on a saved receipt
OfferSparesQuota ==
    /\ bot'.buttons # bot.buttons \/ bot'.qr_cache # bot.qr_cache
          => bot'.data = bot.data /\ bot'.tasks = bot.tasks
    /\ \A u \in Users :
          /\ bot.conv[u] = "ASKING_S" /\ bot'.conv[u] = END /\ bot.tasks[u] = NoTask
          /\ SavedFor(bot.user_data[u], bot.csv)
          => bot'.data = bot.data /\ bot'.tasks = bot.tasks

\* a handler goes on to verify_receipt only from a can_make_request that
\* answered true, and leaves in the file what that check wrote
CheckedBeforeReach ==
    \A u \in Users :
        Reaches(u) => /\ can_make_request(bot.data, bot.day)
                      /\ bot'.data = read_and_reset(bot.data, bot.day)

\* the step enters verify_receipt
BotCallStarts == pc = "idle" /\ ret = NoRet /\ (pc' = "loop" \/ ret' # NoRet)

\* every verify_receipt call is the call of a handler that has got there
CallsOnlyFromHandlers ==
    BotCallStarts => \E u \in Users : /\ bot.tasks[u] # NoTask
                                      /\ bot.tasks[u].request = request_data'

\* C40: when a CSV for the request's (fn, fd, fp) exists in the receipts
\* directory, handle_qr_string and ask_s make no verify_receipt call and
\* leave the quota counter unchanged; that receipt is verified only after
\* an explicit reverify action; and the rate-limit check precedes every
\* verify_receipt call.
C40_SavedReceiptsSpareTheApi ==
    /\ [][SavedOnlyByReverify]_vars
    /\ [][OfferSparesQuota]_vars
    /\ [][CheckedBeforeReach]_vars
    /\ [][CallsOnlyFromHandlers]_vars

\* a saved receipt has been asked for again, by QR string and by manual
\* entry: both buttons are offered, one call was made and counted
C40_Witness ==
    /\ bot.csv # {}
    /\ \E b \in bot.buttons : HasPrefix(b, "reverify_qr_")
    /\ \E b \in bot.buttons : HasPrefix(b, "reverify_manual_")
    /\ bot.data.count = 1
    /\ rcache.hits + rcache.misses = 1
    /\ \A u \in Users : bot.tasks[u] = NoTask

====
